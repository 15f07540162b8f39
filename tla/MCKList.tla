------------------------------- MODULE MCKList -------------------------------
(***************************************************************************)
(* klist for TLC, and beside it one list of callbacks, for what must come  *)
(* to an end in each.  The two share no state, so that each behaviour is   *)
(* about one of them and the other stays as it was.                        *)
(***************************************************************************)
EXTENDS KList

CONSTANTS Threads, Cookies, ListHead
VARIABLES up, kind, list, held, readers, writer, waitShared, waitExclusive,
          pc, cookie, it, heard, answer
VARIABLE about

Callbacks == INSTANCE CallbackList

callbackVars == <<up, kind, list, held, readers, writer, waitShared,
                  waitExclusive, pc, cookie, it, heard, answer>>
allVars == <<about, vars, callbackVars>>

AllInit ==
  /\ about \in {"klist", "callbacks"}
  /\ Init
  /\ Callbacks!Init /\ (about = "klist" => kind = "status")

AllNext ==
  /\ UNCHANGED about
  /\ \/ about = "klist" /\ Next /\ UNCHANGED callbackVars
     \/ about = "callbacks" /\ Callbacks!Next /\ UNCHANGED vars

AllSpec ==
  /\ AllInit /\ [][AllNext]_allVars
  /\ WF_vars(ClearFirst \/ ClearDone)
  /\ \A t \in Threads : WF_callbackVars(Callbacks!Serve(t))

(***************************************************************************)
(* Registrations, unregistrations and announcements that share a resource  *)
(* all return (callbacks.cpp), whichever waits for which.                  *)
(***************************************************************************)
CallsReturn == Callbacks!CallsReturn
=============================================================================
