---------------------------- MODULE CallbackList ----------------------------
(***************************************************************************)
(* callback_list of callbacks.cpp: one kind of VM callback, its klist and  *)
(* the ERESOURCE that guards it.  Other drivers register and unregister    *)
(* callbacks while threads of PawnIO announce events of VMs.  The list is  *)
(* a sequence of its nodes here (module KList shows it may be), and a      *)
(* cookie is the address of a node, which the pool may hand out again.     *)
(***************************************************************************)
EXTENDS Naturals, Sequences, FiniteSets, SequencesExt

CONSTANTS
  Threads,
  Cookies,      \* addresses of list nodes
  ListHead,     \* the address of the head of the klist
  NULL

ASSUME CookiesAssumption ==
  /\ NULL \notin Threads \cup Cookies
  /\ ListHead \notin Cookies \cup {NULL}

VARIABLES
  up,           \* vm_callback_init has run: the list and its resource exist
  kind,         \* what Ret of the list is: "status" or "void"
  list,         \* nodes of the klist, from its head
  held,         \* what register returned to clients: they may unregister it
  readers, writer,             \* owners of the ERESOURCE
  waitShared, waitExclusive,   \* its waiters; the exclusive ones in order
  pc,           \* where every thread is
  cookie,       \* node a thread adds or removes, or NULL at the end
  it,           \* node the loop of a thread is at, or NULL at the end
  heard,        \* history: callbacks the announcement at work has made
  answer        \* history: outcome of a thread's last announcement

resource == <<readers, writer, waitShared, waitExclusive>>
vars == <<up, kind, list, held, resource, pc, cookie, it, heard, answer>>

Goto(t, s) == pc' = [pc EXCEPT ![t] = s]
Listed == ToSet(list)

Init ==
  /\ up = TRUE
  /\ kind \in {"status", "void"}
  /\ list = <<>>
  /\ held = {}
  /\ readers = {} /\ writer = NULL
  /\ waitShared = {} /\ waitExclusive = <<>>
  /\ pc = [t \in Threads |-> "idle"]
  /\ cookie = [t \in Threads |-> NULL]
  /\ it = [t \in Threads |-> NULL]
  /\ heard = [t \in Threads |-> <<>>]
  /\ answer = [t \in Threads |-> [ok |-> TRUE, heard |-> <<>>]]

-----------------------------------------------------------------------------
(***************************************************************************)
(* The ERESOURCE of the kernel.  A shared request waits while there is an  *)
(* exclusive owner or waiter; a release by the exclusive owner lets in all *)
(* shared waiters, the last release by shared owners the next exclusive.   *)
(***************************************************************************)
ExAcquireResourceSharedLite(t) ==
  /\ IF writer = NULL /\ waitExclusive = <<>>
       THEN readers' = readers \cup {t} /\ UNCHANGED waitShared
       ELSE waitShared' = waitShared \cup {t} /\ UNCHANGED readers
  /\ UNCHANGED <<writer, waitExclusive>>

ExAcquireResourceExclusiveLite(t) ==
  /\ IF writer = NULL /\ readers = {}
       THEN writer' = t /\ UNCHANGED waitExclusive
       ELSE waitExclusive' = Append(waitExclusive, t) /\ UNCHANGED writer
  /\ UNCHANGED <<readers, waitShared>>

GrantExclusive ==
  IF waitExclusive = <<>>
    THEN writer' = NULL /\ UNCHANGED waitExclusive
    ELSE /\ writer' = Head(waitExclusive)
         /\ waitExclusive' = Tail(waitExclusive)

ExReleaseResourceLite(t) ==
  IF t = writer
    THEN IF waitShared # {}
           THEN /\ readers' = waitShared
                /\ waitShared' = {}
                /\ writer' = NULL
                /\ UNCHANGED waitExclusive
           ELSE GrantExclusive /\ UNCHANGED <<readers, waitShared>>
    ELSE /\ readers' = readers \ {t}
         /\ UNCHANGED waitShared
         /\ IF readers = {t}
              THEN GrantExclusive
              ELSE UNCHANGED <<writer, waitExclusive>>

-----------------------------------------------------------------------------
(***************************************************************************)
(* add: under the exclusive lock a node, if the pool has one, becomes the  *)
(* first; its address is the cookie the client gets.  Without a node the   *)
(* list gives its end, whose entry is the head, and the client gets NULL.  *)
(***************************************************************************)
add(t) ==
  /\ up
  /\ pc[t] = "idle"
  /\ ExAcquireResourceExclusiveLite(t)
  /\ Goto(t, "add")
  /\ UNCHANGED <<up, kind, list, held, cookie, it, heard, answer>>

Pushed(n) == IF n = NULL THEN list ELSE <<n>> \o list

emplace_front(t, n) ==
  /\ pc[t] = "add" /\ writer = t
  /\ n \notin Listed
  /\ list' = Pushed(n)
  /\ cookie' = [cookie EXCEPT ![t] = n]
  /\ Goto(t, "added")
  /\ UNCHANGED <<up, kind, held, resource, it, heard, answer>>

as_entry(n) == IF n = NULL THEN ListHead ELSE n

MutantCookieOf(n) == as_entry(n)
CookieOf(n) == IF n = NULL THEN NULL ELSE as_entry(n)

ReturnCookie(t) ==
  /\ pc[t] = "added"
  /\ ExReleaseResourceLite(t)
  /\ held' = held \cup {CookieOf(cookie[t])}
  /\ cookie' = [cookie EXCEPT ![t] = NULL]
  /\ Goto(t, "idle")
  /\ UNCHANGED <<up, kind, list, it, heard, answer>>

(***************************************************************************)
(* remove of what a client got from add; when that is NULL, it returns.    *)
(***************************************************************************)
MutantLockedFor(t) ==
  /\ pc' = [pc EXCEPT ![t] = "remove"]
  /\ ExAcquireResourceSharedLite(t)

LockedFor(t) ==
  /\ pc' = [pc EXCEPT ![t] = "remove"]
  /\ ExAcquireResourceExclusiveLite(t)

MutantIgnored(c) == FALSE
Ignored(c) == c = NULL

remove(t, c) ==
  /\ up
  /\ pc[t] = "idle"
  /\ c \in held
  /\ held' = held \ {c}
  /\ IF Ignored(c)
       THEN UNCHANGED <<cookie, pc, resource>>
       ELSE cookie' = [cookie EXCEPT ![t] = c] /\ LockedFor(t)
  /\ UNCHANGED <<up, kind, list, it, heard, answer>>

MutantErased(c) == Tail(list)
Erased(c) == RemoveAt(list, CHOOSE i \in DOMAIN list : list[i] = c)

erase(t) ==
  /\ pc[t] = "remove" /\ t \in {writer} \cup readers
  /\ list' = Erased(cookie[t])
  /\ cookie' = [cookie EXCEPT ![t] = NULL]
  /\ Goto(t, "removed")
  /\ UNCHANGED <<up, kind, held, resource, it, heard, answer>>

Unlock(t) ==
  /\ pc[t] = "removed"
  /\ ExReleaseResourceLite(t)
  /\ Goto(t, "idle")
  /\ UNCHANGED <<up, kind, list, held, cookie, it, heard, answer>>

-----------------------------------------------------------------------------
(***************************************************************************)
(* call_status and call_void: under the shared lock the loop visits the    *)
(* list from its head.  A failing status ends it, and nobody later hears.  *)
(***************************************************************************)
call(t) ==
  /\ up
  /\ pc[t] = "idle"
  /\ ExAcquireResourceSharedLite(t)
  /\ Goto(t, "call")
  /\ UNCHANGED <<up, kind, list, held, cookie, it, heard, answer>>

begin(t) ==
  /\ pc[t] = "call" /\ t \in readers
  /\ it' = [it EXCEPT ![t] = IF list = <<>> THEN NULL ELSE Head(list)]
  /\ heard' = [heard EXCEPT ![t] = <<>>]
  /\ Goto(t, "loop")
  /\ UNCHANGED <<up, kind, list, held, resource, cookie, answer>>

(***************************************************************************)
(* The callback begins, in the driver that registered it.                  *)
(***************************************************************************)
Invoke(t) ==
  /\ pc[t] = "loop" /\ it[t] # NULL
  /\ heard' = [heard EXCEPT ![t] = Append(@, it[t])]
  /\ Goto(t, "callback")
  /\ UNCHANGED <<up, kind, list, held, resource, cookie, it, answer>>

(***************************************************************************)
(* It returns, and the iterator follows the forward link of its node; that *)
(* of a freed node could lead anywhere.                                    *)
(***************************************************************************)
Successors(n) ==
  IF n \in Listed
    THEN {IF Last(list) = n THEN NULL
          ELSE list[1 + CHOOSE i \in DOMAIN list : list[i] = n]}
    ELSE Cookies \cup {NULL}

Continue(t) ==
  /\ pc[t] = "callback"
  /\ \E n \in Successors(it[t]) : it' = [it EXCEPT ![t] = n]
  /\ Goto(t, "loop")
  /\ UNCHANGED <<up, kind, list, held, resource, cookie, heard, answer>>

Finish(t, ok) ==
  /\ ExReleaseResourceLite(t)
  /\ answer' = [answer EXCEPT ![t] = [ok |-> ok, heard |-> heard[t]]]
  /\ heard' = [heard EXCEPT ![t] = <<>>]
  /\ it' = [it EXCEPT ![t] = NULL]
  /\ Goto(t, "idle")
  /\ UNCHANGED <<up, kind, list, held, cookie>>

MutantVeto(t) ==
  /\ pc[t] = "callback" /\ kind = "status"
  /\ Goto(t, "idle")
  /\ it' = [it EXCEPT ![t] = NULL]
  /\ heard' = [heard EXCEPT ![t] = <<>>]
  /\ answer' = [answer EXCEPT ![t] = [ok |-> FALSE, heard |-> heard[t]]]
  /\ UNCHANGED <<up, kind, list, held, resource, cookie>>

MutantVetoLost(t) ==
  /\ pc[t] = "callback" /\ kind = "status"
  /\ Finish(t, TRUE)

Veto(t) ==
  /\ pc[t] = "callback" /\ kind = "status"
  /\ Finish(t, FALSE)

end(t) ==
  /\ pc[t] = "loop" /\ it[t] = NULL
  /\ Finish(t, TRUE)

-----------------------------------------------------------------------------
(***************************************************************************)
(* driver_unload destroys the list, and a later load constructs a new one. *)
(* Nobody calls into a driver that is being unloaded.                      *)
(***************************************************************************)
destroy ==
  /\ up
  /\ \A t \in Threads : pc[t] = "idle"
  /\ up' = FALSE
  /\ list' = <<>>
  /\ held' = {}
  /\ UNCHANGED <<kind, resource, pc, cookie, it, heard, answer>>

init ==
  /\ ~up
  /\ up' = TRUE
  /\ UNCHANGED <<kind, list, held, resource, pc, cookie, it, heard, answer>>

Serve(t) ==
  \/ \E n \in Cookies \cup {NULL} : emplace_front(t, n)
  \/ ReturnCookie(t)
  \/ erase(t)
  \/ Unlock(t)
  \/ begin(t)
  \/ Invoke(t)
  \/ Continue(t)
  \/ Veto(t)
  \/ end(t)

Next ==
  \/ \E t \in Threads : \/ add(t)
                        \/ \E c \in held : remove(t, c)
                        \/ call(t)
                        \/ Serve(t)
  \/ destroy
  \/ init

Spec == Init /\ [][Next]_vars

(***************************************************************************)
(* A thread of the kernel that can run does run, and a callback returns.   *)
(***************************************************************************)
FairSpec == Spec /\ \A t \in Threads : WF_vars(Serve(t))

-----------------------------------------------------------------------------
(***************************************************************************)
(* An iterator never rests on a node that has gone back to the pool, even  *)
(* while clients unregister (the hazard of callbacks.cpp:112 and 123).     *)
(***************************************************************************)
IteratorsLive ==
  \A t \in Threads : pc[t] \in {"loop", "callback"} => it[t] \in Listed \cup {NULL}

(***************************************************************************)
(* Once unregister has returned to a client, no thread is in its callback  *)
(* nor enters it: the client may unload its code.                          *)
(***************************************************************************)
NoLateCall ==
  \A t \in Threads :
    pc[t] = "callback" => it[t] \in held \cup {cookie[u] : u \in Threads}

(***************************************************************************)
(* Every node of the list is the cookie of one client, or on its way to or *)
(* from one, and every such cookie is a node of the list: none leaks, and  *)
(* remove never erases a node of somebody else.  What a client has instead *)
(* of a node, when the pool had none, is NULL and never the list head, and *)
(* remove does not take it to the list.                                    *)
(***************************************************************************)
Owners(n) ==
  {t \in Threads : pc[t] \in {"added", "remove"} /\ cookie[t] = n}

CookiesAreNodes ==
  /\ held \subseteq Listed \cup {NULL}
  /\ \A t \in Threads : pc[t] = "remove" => cookie[t] \in Listed
  /\ \A n \in Cookies :
       Cardinality(Owners(n)) + (IF n \in held THEN 1 ELSE 0)
         = IF n \in Listed THEN 1 ELSE 0

(***************************************************************************)
(* Registration and announcements are atomic to one another: whatever      *)
(* overlaps, an announcement reached the registry as it was at one         *)
(* instant, all of it or up to the client that vetoed (public.h:60-140).   *)
(***************************************************************************)
Registry == INSTANCE CallbackSpec WITH Clients <- Cookies, registry <- list
IsRegistry == Registry!Spec

(***************************************************************************)
(* Neither a stream of announcements nor one of registrations keeps a call *)
(* of the public interface from returning.                                 *)
(***************************************************************************)
CallsReturn == \A t \in Threads : pc[t] # "idle" ~> pc[t] = "idle"
=============================================================================
