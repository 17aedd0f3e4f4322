---------------------------- MODULE MCEndpoints ----------------------------
(***************************************************************************)
(* Model-checking instance of three endpoints, loopback, verto and sofia.  *)
(* They share nothing, so one of them runs while the others stand still.   *)
(***************************************************************************)
EXTENDS Loopback, VertoSessions, SofiaProfile

VARIABLE part   \* the endpoint that runs
endpointvars == <<part, lbvars, vtvars, spvars>>

Init == LbInit /\ VtInit /\ SpInit /\ part \in {"loopback", "verto", "sofia"}

OfLoopback(A) == part = "loopback" /\ A /\ UNCHANGED <<part, vtvars, spvars>>
OfVerto(A) == part = "verto" /\ A /\ UNCHANGED <<part, lbvars, spvars>>
OfSofia(A) == part = "sofia" /\ A /\ UNCHANGED <<part, lbvars, vtvars>>
Next == OfLoopback(LbNext) \/ OfVerto(VtNext) \/ OfSofia(SpNext)

\* LbFairness, VtFairness and SpFairness.
Fairness ==
  /\ WF_endpointvars(OfLoopback(AnyLeg)) /\ WF_endpointvars(OfLoopback(WriterSteps))
  /\ WF_endpointvars(OfVerto(Tick)) /\ WF_endpointvars(OfVerto(RuntimeSteps))
  /\ \A s \in Socks : /\ WF_endpointvars(OfVerto(PassSteps(s)))
                      /\ WF_endpointvars(OfVerto(EndSteps(s)))
  /\ \A c \in VtCalls : WF_endpointvars(OfVerto(CallSteps(c)))
  /\ WF_endpointvars(OfSofia(ModuleSteps)) /\ WF_endpointvars(OfSofia(Releases))
EndpointsSpec == Init /\ [][Next]_endpointvars /\ Fairness

\* Types of the three.
EndpointsTypeOK == LbTypeOK /\ VtTypeOK /\ SpTypeOK
=============================================================================
