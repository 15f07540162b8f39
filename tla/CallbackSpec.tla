---------------------------- MODULE CallbackSpec ----------------------------
(***************************************************************************)
(* What public.h promises of one kind of VM callback: a registry of        *)
(* clients, newest first, that changes one client at a time, and           *)
(* announcements, each of which reaches the registry as it is at one       *)
(* instant, every client of it once and in order, up to one that vetoes.   *)
(***************************************************************************)
EXTENDS Naturals, Sequences, SequencesExt

CONSTANTS Threads, Clients

VARIABLES
  registry,   \* the clients registered, newest first
  answer      \* outcome of the last announcement of every thread

vars == <<registry, answer>>

Answers == [ok : BOOLEAN, heard : Seq(Clients)]

Init ==
  /\ registry = <<>>
  /\ answer = [t \in Threads |-> [ok |-> TRUE, heard |-> <<>>]]

Register(c) ==
  /\ \A i \in DOMAIN registry : registry[i] # c
  /\ registry' = <<c>> \o registry
  /\ UNCHANGED answer

Unregister(i) ==
  /\ registry' = RemoveAt(registry, i)
  /\ UNCHANGED answer

(***************************************************************************)
(* Everybody heard of it, or somebody blocked it and nobody later heard.   *)
(***************************************************************************)
Announce(t) ==
  /\ \/ answer' = [answer EXCEPT ![t] = [ok |-> TRUE, heard |-> registry]]
     \/ \E k \in DOMAIN registry :
          answer' = [answer EXCEPT ![t] =
                       [ok |-> FALSE, heard |-> SubSeq(registry, 1, k)]]
  /\ UNCHANGED registry

Unload ==
  /\ registry' = <<>>
  /\ UNCHANGED answer

Next ==
  \/ \E c \in Clients : Register(c)
  \/ \E i \in DOMAIN registry : Unregister(i)
  \/ \E t \in Threads : Announce(t)
  \/ Unload

Spec == Init /\ [][Next]_vars
=============================================================================
