---------------------------- MODULE MCProcessor -----------------------------
(* The processor seen three ways, each on its own: `part` names the one that *)
(* runs.  Interrupts and waits (Cpu, the HD6309 build: the MC6809 build makes *)
(* fewer of the same steps), the instructions (Programs) and the idle-loop   *)
(* skip (IdleLoop, on loop bodies of each kind the decoder knows).           *)
EXTENDS Cpu, Programs, IdleLoop

\* Programs unmask everything and set E by hand; reset and the handlers mask.
MCMasks == {{"E"}}

\* Native mode and emulation mode with entire FIRQs; reset gives plain emulation.
MCModes == {{"NM"}, {"FM"}}

\* Loop bodies of each kind the decoder knows, and refused ones.
MCBodies ==
  { <<>>, <<\h12>>, <<\h4D>>, <<\h0D, \h10>>, <<\h6D, \h84>>, <<\h7D, \h20, \h10>>,
    <<\h91, \h10>>, <<\hA1, \h84>>, <<\hB5, \h20, \h10>>, <<\hD6, \h10>>, <<\hE6, \h1F>>, <<\h96, \h10>>,
    <<\h9C, \h10>>, <<\h9E, \h10>>, <<\hDC, \h10>>, <<\hEC, \hA4>>, <<\hAE, \hA4>>,
    <<\h96, \h10, \h90, \h11>>, <<\hD6, \h10, \hDB, \h11>>, <<\h91, \h11, \h96, \h10>>, <<\hA6, \hA4, \h84, 1>>,
    <<\h90, \h10>>, <<\hDB, \h11>>, <<\h96, \h10, \hD0, \h11>>, <<\h99, \h10>>, <<\h0C, \h10>>, <<\hA6, \h80>>,
    <<\h5A>>, <<\h4C>>, <<\hDE, \h10>>, <<\h9E, \h10, \hE6, \h84>> }

\* A walk along a linked list.
ListWalk == { <<\hAE, \h84>> }
VARIABLE part

Idle == "idle"

ProcessorInit ==
  /\ part \in {"cpu", "programs", "loop"}
  /\ CpuInit
  /\ \/ part = "programs" /\ ProgInit
     \/ part # "programs" /\ m = Idle /\ test = Idle /\ left = <<Idle>>
  /\ \/ part = "loop" /\ IdleInit
     \/ part # "loop" /\ quick = [m |-> Idle, cycles |-> 0] /\ plain = quick /\ calls = 0

\* The programs and the run calls come to an end.
Ended ==
  /\ \/ part = "programs" /\ left = <<>>
     \/ part = "loop" /\ calls = CALLS
  /\ UNCHANGED <<part, cpu, pvars, ivars>>

ProcessorNext ==
  \/ part = "cpu" /\ CpuNext /\ UNCHANGED <<part, pvars, ivars>>
  \/ part = "programs" /\ ProgNext /\ UNCHANGED <<part, cpu, ivars>>
  \/ part = "loop" /\ IdleNext /\ UNCHANGED <<part, cpu, pvars>>
  \/ Ended

\* The fairness of CpuSpec, for the part that runs.
ProcessorSpec ==
  ProcessorInit /\ [][ProcessorNext]_<<part, cpu, pvars, ivars>> /\ WF_cpu(part = "cpu" /\ Resume)
=============================================================================
