------------------------------- MODULE Dictionary -------------------------------
(***************************************************************************)
(* What the database promises the threads that call it: one map from names *)
(* to values, and calls that take effect in one instant between their      *)
(* start and their return.                                                 *)
(***************************************************************************)
CONSTANTS Clients,   \* the threads that call the database
          Requests,  \* what they may ask: records [op, key, val]
          Keys, Values, Absent

VARIABLES dict,      \* dict[k]: the value of name k, or Absent
          call,      \* call[c]: the request of c, or Absent
          answer     \* answer[c]: what the call will return, or Absent

dictVars == <<call, answer, dict>>

Init == /\ dict \in [Keys -> Values \cup {Absent}]
        /\ call = [c \in Clients |-> Absent]
        /\ answer = [c \in Clients |-> Absent]

Call(c, r) == /\ call[c] = Absent
              /\ call' = [call EXCEPT ![c] = r]
              /\ UNCHANGED <<answer, dict>>

Answers(c, a) == answer' = [answer EXCEPT ![c] = a]

Query(c, k) == /\ Answers(c, IF dict[k] = Absent THEN "not found" ELSE dict[k])
               /\ UNCHANGED dict

\* After a failed allocation the caller reads "added" as well; "added nothing" is that reply,
\* named apart so that an addition lost in any other way is not taken for one of these.
Add(c, k, v) ==
    IF dict[k] # Absent THEN Answers(c, "already in database") /\ UNCHANGED dict
    ELSE \/ Answers(c, "added") /\ dict' = [dict EXCEPT ![k] = v]
         \/ Answers(c, "added nothing") /\ UNCHANGED dict

Remove(c, k) ==
    IF dict[k] = Absent THEN Answers(c, "not in database") /\ UNCHANGED dict
    ELSE Answers(c, "removed") /\ dict' = [dict EXCEPT ![k] = Absent]

Serve(c) == /\ call[c] # Absent
            /\ answer[c] = Absent
            /\ \/ call[c].op = "q" /\ Query(c, call[c].key)
               \/ call[c].op = "a" /\ Add(c, call[c].key, call[c].val)
               \/ call[c].op = "d" /\ Remove(c, call[c].key)
            /\ UNCHANGED call

Return(c) == /\ answer[c] # Absent
             /\ call' = [call EXCEPT ![c] = Absent]
             /\ answer' = [answer EXCEPT ![c] = Absent]
             /\ UNCHANGED dict

Next == \E c \in Clients : (\E r \in Requests : Call(c, r)) \/ Serve(c) \/ Return(c)

Spec == Init /\ [][Next]_dictVars
=================================================================================
