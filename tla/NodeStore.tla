------------------------------ MODULE NodeStore ------------------------------
(***************************************************************************)
(* What the trait `NodeStore` (src/src/node_store.rs) promises to the      *)
(* build, merge and writer stages: a map from voxel keys to point lists    *)
(* that any thread may call.  A key that was never written reads as the    *)
(* empty list and counts 0; a write replaces what the key held; a read     *)
(* returns what the key held at one instant between its call and its       *)
(* return.                                                                 *)
(*                                                                         *)
(* A call is two steps, its beginning and its end.  A write takes effect   *)
(* when it ends; a read fixes its answer when it begins.                   *)
(*                                                                         *)
(* A call may return Err.  A failed write sets `failed`: the callers       *)
(* propagate the error with `?` and the build is abandoned, so from then   *)
(* on the trait promises nothing about the calls still running.            *)
(***************************************************************************)
EXTENDS Naturals

CONSTANTS Threads,     \* the rayon workers that call the store
          Keys,        \* voxel keys
          Values,      \* point lists
          Empty,       \* the empty point list
          PointCount   \* number of points of each list

VARIABLES contents,    \* what each key holds
          call,        \* the call each thread is in
          result,      \* the last answer given, and the thread that got it
          failed       \* some write has returned Err

storeVars == <<contents, call, result, failed>>

NoCall   == [kind |-> "none"]
NoResult == [kind |-> "none"]

Calls == {NoCall} \cup [kind : {"write"}, key : Keys, val : Values]
                  \cup [kind : {"read"}, key : Keys, promised : Values]

Init ==
    /\ contents = [k \in Keys |-> Empty]
    /\ call = [t \in Threads |-> NoCall]
    /\ result = NoResult
    /\ failed = FALSE

BeginWrite(t, k, v) ==
    /\ call[t] = NoCall
    /\ call' = [call EXCEPT ![t] = [kind |-> "write", key |-> k, val |-> v]]
    /\ UNCHANGED <<contents, result, failed>>

EndWrite(t) ==
    /\ call[t].kind = "write"
    /\ contents' = [contents EXCEPT ![call[t].key] = call[t].val]
    /\ call' = [call EXCEPT ![t] = NoCall]
    /\ UNCHANGED <<result, failed>>

BeginRead(t, k) ==
    /\ call[t] = NoCall
    /\ call' = [call EXCEPT ![t] =
                  [kind |-> "read", key |-> k, promised |-> contents[k]]]
    /\ UNCHANGED <<contents, result, failed>>

EndRead(t) ==
    /\ call[t].kind = "read"
    /\ result' = [thread |-> t,
                  answer |-> [kind |-> "points", val |-> call[t].promised]]
    /\ call' = [call EXCEPT ![t] = NoCall]
    /\ UNCHANGED <<contents, failed>>

Count(t, k) ==
    /\ call[t] = NoCall
    /\ result' = [thread |-> t,
                  answer |-> [kind |-> "count",
                              val |-> PointCount[contents[k]]]]
    /\ UNCHANGED <<contents, call, failed>>

\* The read in progress returns Err: there is no answer, and nothing changed.
ReadFails(t) ==
    /\ call[t].kind = "read"
    /\ call' = [call EXCEPT ![t] = NoCall]
    /\ UNCHANGED <<contents, result, failed>>

\* The write in progress returns Err.
WriteFails(t) ==
    /\ call[t].kind = "write"
    /\ call' = [call EXCEPT ![t] = NoCall]
    /\ failed' = TRUE
    /\ UNCHANGED <<contents, result>>

\* Nothing is promised to the calls that are still running after an error.
AfterFailure == failed /\ failed'

Next ==
    \/ \E t \in Threads, k \in Keys :
          \/ \E v \in Values : BeginWrite(t, k, v)
          \/ BeginRead(t, k)
          \/ Count(t, k)
    \/ \E t \in Threads : EndWrite(t) \/ WriteFails(t) \/ EndRead(t) \/ ReadFails(t)
    \/ AfterFailure

Spec == Init /\ [][Next]_storeVars
=============================================================================
