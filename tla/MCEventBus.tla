----------------------------- MODULE MCEventBus -----------------------------
(***************************************************************************)
(* EventBus for TLC.  The application builds its bus in                    *)
(* shared/dependencies.py and never starts it (main.py, lifespan):         *)
(* NeverStarted is that bus.                                               *)
(***************************************************************************)
EXTENDS EventBus, TLC

NeverStartedNext ==
    \/ \E h \in Handlers : Subscribe(h)
    \/ \E p \in Publishers : Publish(p) \/ ResumePut(p)

NeverStarted == Init /\ [][NeverStartedNext]_vars /\ Fairness
=============================================================================
