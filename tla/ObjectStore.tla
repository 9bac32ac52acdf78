---------------------------- MODULE ObjectStore ----------------------------
(***************************************************************************)
(* What the cached object store promises its callers, without a cache: a   *)
(* call takes effect once, at one moment between its start and its return. *)
(* A read returns exactly the requested bytes of an object that was        *)
(* written, or that it is missing, and only when it is missing at that     *)
(* moment; the bytes of a deleted object may still be served.              *)
(***************************************************************************)
EXTENDS ObjectReads

CONSTANTS Procs     \* callers

VARIABLES
    present,    \* paths that hold an object
    written,    \* paths that ever held one
    call,       \* the call each caller has under way
    reply       \* its reply: none, pending until it took effect, then the outcome

vars == <<present, written, call, reply>>

Calls == [op : {"none", "get", "put", "upload", "delete", "copy", "rename"},
          from : Paths, to : Paths, req : Requests]

NoCall == [op |-> "none", from |-> CHOOSE p \in Paths : TRUE,
           to |-> CHOOSE p \in Paths : TRUE, req |-> All]

Init ==
    /\ present \subseteq Paths
    /\ written = present
    /\ call = [q \in Procs |-> NoCall]
    /\ reply = [q \in Procs |-> Word("none")]

Begin(q) ==
    /\ reply[q] = Word("none")
    /\ \E c \in Calls : c.op # "none" /\ call' = [call EXCEPT ![q] = c]
    /\ reply' = [reply EXCEPT ![q] = Word("pending")]
    /\ UNCHANGED <<present, written>>

Read(q) ==
    /\ reply[q] = Word("pending") /\ call[q].op = "get"
    /\ \E answer \in Readings(call[q].from, call[q].req) \cup {Word("missing"), Word("failed")} :
         /\ answer.is = "read" => call[q].from \in written
         /\ answer.is = "missing" => call[q].from \notin present
         /\ reply' = [reply EXCEPT ![q] = answer]
    /\ UNCHANGED <<present, written, call>>

\* The paths a call adds and removes when it takes effect.
Adds(c)    == IF c.op \in {"put", "upload", "copy", "rename"} THEN {c.to} ELSE {}

Removes(c) == IF c.op \in {"delete", "rename"} THEN {c.from} ELSE {}

\* A write takes effect, or fails with or without an effect.
Write(q) ==
    /\ reply[q] = Word("pending") /\ call[q].op # "get"
    /\ \/ /\ present' = (present \ Removes(call[q])) \cup Adds(call[q])
          /\ written' = written \cup Adds(call[q])
          /\ reply' \in {[reply EXCEPT ![q] = Word(w)] : w \in {"ok", "failed"}}
       \/ /\ reply' = [reply EXCEPT ![q] = Word("failed")]
          /\ UNCHANGED <<present, written>>
    /\ UNCHANGED call

Return(q) ==
    /\ reply[q] \notin {Word("none"), Word("pending")}
    /\ reply' = [reply EXCEPT ![q] = Word("none")]
    /\ call' = [call EXCEPT ![q] = NoCall]
    /\ UNCHANGED <<present, written>>

\* The server stops: its calls are gone, the objects stay.
Restart ==
    /\ call' = [q \in Procs |-> NoCall]
    /\ reply' = [q \in Procs |-> Word("none")]
    /\ UNCHANGED <<present, written>>

Next ==
    \/ \E q \in Procs : Begin(q) \/ Read(q) \/ Write(q) \/ Return(q)
    \/ Restart

Spec == Init /\ [][Next]_vars
=============================================================================
