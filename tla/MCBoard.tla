------------------------------ MODULE MCBoard -------------------------------
(* The machine in scenes, one per question, each with the registers it needs; *)
(* and the GIME's renderers.  `part` names the one that runs, the other keeps *)
(* its initial state.                                                         *)
EXTENDS Machine, GimeRender

\* An address for every page, device and vector
AllProbes ==
  {0, \h2000, \h7FFF, \h8000, \hA000, \hC123, \hDFFF, \hE000, \hFDFF, \hFE00, \hFEFF, \hFF00, \hFF22, \hFF40, \hFF41,
   \hFF50, \hFF68, \hFF7A, \hFF7D, \hFF80, \hFF91, \hFF92, \hFFA3, \hFFC0, \hFFDF, \hFFE0, \hFFFE}
\* Enough where no scene is about memory
FewProbes == {\hE000, \hFE00, \hFF22, \hFFDF}

Scenery(kind, fitted, stores, reads, slots, accesses, lines) ==
  [setup |-> <<>>, kind |-> kind, ram_pages |-> 64, fitted |-> fitted, loaded |-> {"basic", "extbas"}, writes |-> stores,
   reads |-> reads, slots |-> slots, accesses |-> accesses, lines |-> lines, keys |-> {}, unmask |-> FALSE,
   probes |-> IF lines > 2 THEN FewProbes ELSE AllProbes]

\* MMU, INIT0, INIT1, SAM TY and MPU writes in any order
Memory ==
  Scenery("coco3", {"acia", "orch90", "vhd", "becker", "banked"},
    {<<\hFF90, {7}>>, <<\hFF90, {6, 3}>>, <<\hFF90, {6, 1, 0}>>, <<\hFF91, {0}>>, <<\hFF91, {}>>,
     <<\hFFA0, {1}>>, <<\hFFA8, {5, 4, 3, 2}>>, <<\hFFA7, {}>>, <<\hFFDE, {}>>, <<\hFFDF, {}>>, <<\hFF40, {0}>>,
     <<\hFF98, {7}>>, <<\hFF22, {7}>>, <<\hFF23, {2}>>}, {\hFF40}, {0}, 4, 1)
SmallMemory == [Memory EXCEPT !.ram_pages = 16, !.fitted = {}, !.accesses = 3]
BigMemory ==
  [Memory EXCEPT !.ram_pages = 256, !.accesses = 3,
                 !.writes = {<<\hFF90, {6}>>, <<\hFFA0, {7, 6}>>, <<\hFFA1, {5, 4, 3, 2}>>, <<\hFFDF, {}>>}]

\* Two frames with the video registers written here and there
Frames ==
  Scenery("coco3", {},
    {<<\hFF90, {7, 5}>>, <<\hFF90, {5}>>, <<\hFF92, {VBORD}>>, <<\hFF98, {7, 3}>>, <<\hFF98, {7, 1, 0}>>,
     <<\hFF99, {5, 4}>>, <<\hFF99, {6, 5}>>, <<\hFF99, {6}>>, <<\hFF9C, {1, 0}>>, <<\hFF9D, {1}>>},
    {\hFF92}, {0, 120}, 2, 524)

\* Two or three writes of the timer's registers, then enough lines to expire
Timer ==
  Scenery("coco3", {},
    {<<\hFF91, {5}>>, <<\hFF91, {}>>, <<\hFF94, {}>>, <<\hFF94, {1}>>, <<\hFF95, {0, 1}>>, <<\hFF95, {}>>,
     <<\hFF90, {5}>>, <<\hFF92, {TMR}>>, <<\hFF93, {TMR}>>}, {\hFF92, \hFF93}, {0, 1, 7}, 4, 20)

\* Key presses with the keyboard interrupt, and the interrupt entries
Keyboard ==
  [Scenery("coco3", {"acia", "autostart"},
     {<<\hFF01, {2}>>, <<\hFF01, {2, 0}>>, <<\hFF92, {EI1}>>, <<\hFF90, {5}>>}, {\hFF00, \hFF92, \hFF93}, {0, 1}, 6, 2)
     EXCEPT !.keys = {0}, !.unmask = TRUE]

\* The sound and joystick outputs of the PIAs, either machine
Sounds(kind) ==
  Scenery(kind, {"orch90", "autostart", "ssc"},
    {<<\hFF01, {3, 2}>>, <<\hFF03, {3, 2}>>, <<\hFF20, Bits>>, <<\hFF20, {7, 2}>>, <<\hFF21, {2}>>, <<\hFF23, {2}>>,
     <<\hFF23, {3, 2}>>, <<\hFF22, {1}>>, <<\hFF7A, {7}>>, <<\hFF7B, {6}>>}, {\hFF00, \hFF22}, {0}, 4, 1)

\* A CoCo 2: memory map, interrupts and two fields
Memory2 ==
  Scenery("coco2", {"acia", "orch90", "vhd", "becker", "ssc"},
    {<<\hFFDE, {}>>, <<\hFFDF, {}>>, <<\hFFC7, {}>>, <<\hFF03, {0}>>}, {\hFF00, \hFF02}, {0}, 3, 1)
Fields ==
  Scenery("coco2", {"acia"},
    {<<\hFF01, {2, 0}>>, <<\hFF03, {2, 0}>>, <<\hFF03, {2, 1, 0}>>, <<\hFF23, {2}>>, <<\hFF22, {7, 6, 4}>>}, {\hFF00, \hFF02},
    {0, 150}, 3, 300)
\* The graphics modes: PIA1 port B an output, GM and the SAM mode V set
Pictures(GM, v) ==
  [Fields EXCEPT !.setup = << <<\hFF22, 3 .. 7>>, <<\hFF23, {2}>>, <<\hFF22, {7} \cup {b + 4 : b \in GM}>>,
                              <<\hFFC0 + (IF 0 \in v THEN 1 ELSE 0), {}>>, <<\hFFC2 + (IF 1 \in v THEN 1 ELSE 0), {}>>,
                              <<\hFFC4 + (IF 2 \in v THEN 1 ELSE 0), {}>> >>,
                 !.writes = {<<\hFFC7, {}>>, <<\hFFD3, {}>>}, !.reads = {}, !.slots = {0}, !.fitted = {}, !.accesses = 1]

\* The same, but the program turns graphics on in mid-field, at a mirror of $FF22
Mirrored ==
  LET quiet == Pictures({}, {0})
  IN [quiet EXCEPT !.setup = SubSeq(@, 1, 2) \o SubSeq(@, 4, 6), !.writes = {<<\hFF26, {7}>>}, !.slots = {150}]

MCScenes ==
  {Memory, SmallMemory, BigMemory, Frames, Timer, Keyboard, Sounds("coco2"), Sounds("coco3"), Memory2, Fields,
   Pictures({}, {0}), Pictures({0}, {0}), Pictures({1}, {1}), Pictures({0, 1}, {0, 1}), Pictures({2}, {2}),
   Pictures({0, 2}, {0, 2}), Pictures({1, 2}, {1, 2}), Pictures({0, 1, 2}, {1, 2}), Mirrored}

\* Registers that select every renderer, with a scroll offset that wraps.
MCViewWrites ==
  {<<\hFF90, {7}>>, <<\hFF90, {}>>, <<\hFF98, {7}>>, <<\hFF98, {1, 0}>>, <<\hFF9F, {6, 5, 4, 3, 2, 1, 0}>>,
   <<\hFFC1, {}>>, <<\hFF23, {2}>>, <<\hFF22, {7}>>, <<\hFF22, {7, 4, 3}>>, <<\hFF22, {7, 6, 5, 4}>>, <<\hFF22, {5, 4}>>,
   <<\hFF99, {0}>>, <<\hFF99, {1}>>, <<\hFF99, {4, 3, 2, 1}>>, <<\hFF99, {2, 0}>>, <<\hFF99, {4}>>}

\* Some contents, and a font that no two rows of are alike
MCVram(a) == (a * 29 + (a \div 7) * 101 + 75) % 256
MCFont(i) == (i * 53 + (i \div 5) * 17 + 30) % 256

VARIABLE part

BoardInit ==
  /\ part \in {"machine", "renderers"}
  /\ MachineInit /\ RenderInit
  /\ part # "machine" => scene = Memory2

BoardNext ==
  \/ part = "machine" /\ MachineNext /\ UNCHANGED <<part, rvars>>
  \/ part = "renderers" /\ RenderNext /\ UNCHANGED <<part, mvars>>

BoardSpec == BoardInit /\ [][BoardNext]_<<part, mvars, rvars>>
=============================================================================
