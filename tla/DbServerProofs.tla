----------------------------- MODULE DbServerProofs -----------------------------
(* For any number of clients, and whatever main and the SIGINT thread do: the   *)
(* stop of the console holds; and the list of clients is sound until the        *)
(* server shuts down.                                                           *)
EXTENDS DbServer, TLAPS

Places == {"none", "register", "link", "count", "counting", "test", "falling asleep",
           "asleep", "awake", "serve", "uncount", "uncounting", "unlist", "ended"}

\* What the proof needs of the types.
StopTypes == /\ th \in [Clients -> [pc : Places, copy : Int]]
             /\ num \in Int
             /\ stopped \in BOOLEAN
             /\ ran \in [Clients -> Nat]

\* A client that has used up its one command of this stop is not past
\* client_control_wait again; without a stop nothing is counted.
SpentIsHeld == \A c \in Clients : \/ ran[c] = 0
                                  \/ stopped /\ ran[c] = 1 /\ At(c) # "serve"

StopInv == StopTypes /\ SpentIsHeld

LEMMA StopInit == Init => StopInv
<1> SUFFICES ASSUME Init PROVE StopInv
  OBVIOUS
<1>1. num = 0 /\ stopped = FALSE /\ ran = [c \in Clients |-> 0]
  BY DEF Init
<1>2. StopTypes
  <2>1. \A v : v \in [pc : Places, copy : Int] =>
                [c \in Clients |-> v] \in [Clients -> [pc : Places, copy : Int]]
    OBVIOUS
  <2>2. [pc |-> "none", copy |-> 0] \in [pc : Places, copy : Int]
    BY DEF Places
  <2>3. th = [c \in Clients |-> [pc |-> "none", copy |-> 0]]
    BY DEF Init
  <2>4. th \in [Clients -> [pc : Places, copy : Int]]
    BY <2>1, <2>2, <2>3
  <2>5. num \in Int
    BY <1>1
  <2>6. stopped \in BOOLEAN
    BY <1>1
  <2>7. ran \in [Clients -> Nat]
    BY <1>1
  <2> QED BY <2>4, <2>5, <2>6, <2>7 DEF StopTypes
<1>3. SpentIsHeld
  BY <1>1 DEF SpentIsHeld
<1> QED BY <1>2, <1>3 DEF StopInv

\* A step that changes neither the flag nor the counts, and takes nobody to a command.
LEMMA StopFrame == ASSUME StopInv, UNCHANGED <<stopped, ran>>, num' \in Int,
                          th' \in [Clients -> [pc : Places, copy : Int]],
                          \A d \in Clients : th'[d].pc = "serve" => th[d].pc = "serve"
                   PROVE  StopInv'
BY DEF StopInv, StopTypes, SpentIsHeld, At

\* What moving a client does to th.
LEMMA Moved == ASSUME StopInv, NEW c \in Clients, NEW q \in Places, Goto(c, q)
               PROVE  /\ th' \in [Clients -> [pc : Places, copy : Int]]
                      /\ th'[c].pc = q
                      /\ \A d \in Clients \ {c} : th'[d] = th[d]
<1>1. th \in [Clients -> [pc : Places, copy : Int]] /\ th' = [th EXCEPT ![c].pc = q]
  BY DEF StopInv, StopTypes, Goto
<1>2. th[c] \in [pc : Places, copy : Int]
  BY <1>1
<1>3. th'[c] = [th[c] EXCEPT !.pc = q]
  BY <1>1
<1>4. th'[c] \in [pc : Places, copy : Int] /\ th'[c].pc = q
  BY <1>2, <1>3
<1> QED BY <1>1, <1>4

\* A client that moves, but not to a command.
LEMMA StopMove == ASSUME StopInv, NEW c \in Clients, NEW q \in Places \ {"serve"}, Goto(c, q),
                         UNCHANGED <<num, stopped, ran>>
                  PROVE  StopInv'
<1>1. /\ th' \in [Clients -> [pc : Places, copy : Int]]
      /\ \A d \in Clients : th'[d].pc = "serve" => th[d].pc = "serve"
  BY Moved
<1>2. num' \in Int
  BY DEF StopInv, StopTypes
<1> QED BY <1>1, <1>2, StopFrame

\* A client that loads or stores the counter moves, too.
LEMMA StopCount == ASSUME StopInv, NEW c \in Clients, NEW q \in Places \ {"serve"}, NEW n \in Int,
                          th' = [th EXCEPT ![c] = [pc |-> q, copy |-> n]],
                          num' \in Int, UNCHANGED <<stopped, ran>>
                   PROVE  StopInv'
<1>1. [pc |-> q, copy |-> n] \in [pc : Places, copy : Int]
  OBVIOUS
<1>2. /\ th' \in [Clients -> [pc : Places, copy : Int]]
      /\ \A d \in Clients : th'[d].pc = "serve" => th[d].pc = "serve"
  BY <1>1 DEF StopInv, StopTypes
<1> QED BY <1>2, StopFrame

\* Any step of a client: only client_control_wait lets it on to a command, and only
\* when the console has not said stop.
LEMMA StopClient == ASSUME StopInv, NEW c \in Clients, ClientStep(c)
                    PROVE  StopInv'
<1>0. {"register", "link", "count", "counting", "test", "falling asleep", "asleep", "uncount",
       "uncounting", "unlist", "ended"} \subseteq Places \ {"serve"} /\ "serve" \in Places
  BY DEF Places
<1>1. CASE Accept(c) \/ LinkNext(c) \/ LinkHead(c) \/ MustWait(c) \/ Sleep(c) \/ Wake(c)
           \/ HangUp(c) \/ CancelActs(c) \/ RemoveFromList(c)
  <2>1. /\ UNCHANGED <<num, stopped, ran>>
        /\ \E q \in {"register", "link", "count", "test", "falling asleep", "asleep", "uncount",
                     "ended"} : Goto(c, q)
    BY <1>1 DEF Accept, LinkNext, LinkHead, MustWait, Sleep, Wake, HangUp, CancelActs,
                RemoveFromList, contVars
  <2> QED BY <2>1, <1>0, StopMove
<1>2. CASE CountUp(c) \/ CountDown(c)
  <2>1. PICK q \in {"counting", "uncounting"} : th' = [th EXCEPT ![c] = [pc |-> q, copy |-> num]]
    BY <1>2 DEF CountUp, CountDown, LoadNum
  <2>2. UNCHANGED <<num, stopped, ran>> /\ num \in Int
    BY <1>2 DEF CountUp, CountDown, LoadNum, contVars, StopInv, StopTypes
  <2> QED BY <2>1, <2>2, <1>0, StopCount
<1>3. CASE CountedUp(c) \/ CountedDown(c)
  <2>1. PICK q \in {"test", "unlist"} : th' = [th EXCEPT ![c] = [pc |-> q, copy |-> 0]]
    BY <1>3 DEF CountedUp, CountedDown
  <2>2. th[c] \in [pc : Places, copy : Int]
    BY DEF StopInv, StopTypes
  <2>3. UNCHANGED <<stopped, ran>> /\ num' \in Int
    BY <1>3, <2>2 DEF CountedUp, CountedDown, contVars
  <2>4. q \in Places \ {"serve"}
    BY <1>0
  <2>5. 0 \in Int
    OBVIOUS
  <2> QED BY <2>1, <2>3, <2>4, <2>5, StopCount
<1>4. CASE Pass(c)
  <2>1. ~stopped /\ Goto(c, "serve") /\ UNCHANGED <<num, stopped, ran>>
    BY <1>4 DEF Pass
  <2>2. th' \in [Clients -> [pc : Places, copy : Int]]
    BY <2>1, <1>0, Moved
  <2>3. \A d \in Clients : ran[d] = 0
    BY <2>1 DEF StopInv, SpentIsHeld
  <2> QED BY <2>1, <2>2, <2>3 DEF StopInv, StopTypes, SpentIsHeld
<1>5. CASE Receive(c)
  <2>1. /\ Goto(c, "test") /\ At(c) = "serve"
        /\ ran' = [ran EXCEPT ![c] = IF stopped THEN ran[c] + 1 ELSE 0]
        /\ UNCHANGED <<num, stopped>>
    BY <1>5 DEF Receive
  <2>2. /\ th' \in [Clients -> [pc : Places, copy : Int]]
        /\ th'[c].pc = "test" /\ \A d \in Clients \ {c} : th'[d] = th[d]
    BY <2>1, <1>0, Moved
  <2>3. ran[c] = 0 /\ ran \in [Clients -> Nat] /\ num \in Int /\ stopped \in BOOLEAN
    BY <2>1 DEF StopInv, StopTypes, SpentIsHeld
  <2>4. ran'[c] = (IF stopped THEN 1 ELSE 0) /\ ran' \in [Clients -> Nat]
    BY <2>1, <2>3
  <2>5. StopTypes'
    BY <2>1, <2>2, <2>3, <2>4 DEF StopTypes
  <2>6. ASSUME NEW d \in Clients PROVE (ran[d] = 0 \/ (stopped /\ ran[d] = 1 /\ At(d) # "serve"))'
    <3>1. CASE d = c BY <3>1, <2>1, <2>2, <2>4 DEF At
    <3>2. CASE d # c BY <3>2, <2>1, <2>2, <2>3 DEF At, StopInv, SpentIsHeld
    <3> QED BY <3>1, <3>2
  <2> QED BY <2>5, <2>6 DEF StopInv, SpentIsHeld
<1> QED BY <1>1, <1>2, <1>3, <1>4, <1>5 DEF ClientStep

\* A broadcast wakes sleepers, who are still in front of the test of `stopped`.
LEMMA StopConsole == ASSUME StopInv, ClientControlStop \/ ClientControlRelease
                     PROVE  StopInv'
<1>1. UNCHANGED num /\ Broadcast
  BY DEF ClientControlStop, ClientControlRelease
<1>2. ASSUME NEW c \in Clients
      PROVE  /\ th'[c] \in [pc : Places, copy : Int]
             /\ th'[c].pc = "serve" => th[c].pc = "serve"
  <2>1. th[c] \in [pc : Places, copy : Int] /\ "awake" \in Places
    BY DEF StopInv, StopTypes, Places
  <2>2. th'[c] = [th[c] EXCEPT !.pc = IF th[c].pc = "asleep" THEN "awake" ELSE th[c].pc]
    BY <1>1 DEF Broadcast
  <2> QED BY <2>1, <2>2
<1>3. th' \in [Clients -> [pc : Places, copy : Int]]
  BY <1>1, <1>2 DEF Broadcast
<1>4. CASE ran' = [c \in Clients |-> 0] /\ stopped' \in BOOLEAN
  BY <1>1, <1>3, <1>4 DEF StopInv, StopTypes, SpentIsHeld
<1>5. CASE UNCHANGED <<stopped, ran>>
  <2>1. num' \in Int
    BY <1>1 DEF StopInv, StopTypes
  <2> QED BY <1>2, <1>3, <1>5, <2>1, StopFrame
<1> QED BY <1>4, <1>5 DEF ClientControlStop, ClientControlRelease, StopInv, StopTypes

\* Steps of main and of the SIGINT thread outside the console.
LEMMA StopOthers == ASSUME StopInv, Sigint \/ EndOfInput \/ (\E a \in Killers : DeleteAll(a))
                                    \/ Poll \/ DbCleanup
                    PROVE  StopInv'
<1>0. num \in Int
  BY DEF StopInv, StopTypes
<1>1. UNCHANGED <<th, stopped, ran>> /\ num' \in Int
  <2>1. CASE Sigint \/ EndOfInput \/ Poll \/ DbCleanup
    <3>1. UNCHANGED <<clientVars, num, contVars>>
      BY <2>1 DEF Sigint, EndOfInput, Poll, DbCleanup
    <3> QED BY <1>0, <3>1 DEF clientVars, contVars
  <2>2. CASE \E a \in Killers : DeletePick(a) \/ DeleteUnhead(a)
    <3>1. UNCHANGED <<clientVars, num, contVars>>
      BY <2>2 DEF DeletePick, DeleteUnhead
    <3> QED BY <1>0, <3>1 DEF clientVars, contVars
  <2>3. CASE \E a \in Killers : DeleteCount(a)
    <3>1. UNCHANGED <<clientVars, contVars>> /\ num' = num - 1
      BY <2>3 DEF DeleteCount
    <3> QED BY <1>0, <3>1 DEF clientVars, contVars
  <2>4. CASE \E a \in Killers : DeleteCancel(a)
    <3>1. UNCHANGED <<th, num, contVars>>
      BY <2>4 DEF DeleteCancel
    <3> QED BY <1>0, <3>1 DEF contVars
  <2> QED BY <2>1, <2>2, <2>3, <2>4 DEF DeleteAll
<1> QED BY <1>1 DEF StopInv, StopTypes, SpentIsHeld, At

LEMMA StopNext == ASSUME StopInv, [Next]_srvVars PROVE StopInv'
<1>1. CASE Next
  BY <1>1, StopClient, StopConsole, StopOthers DEF Next
<1>2. CASE UNCHANGED srvVars
  BY <1>2 DEF srvVars, clientVars, contVars, StopInv, StopTypes, SpentIsHeld, At
<1> QED BY <1>1, <1>2

\* However often the console stops and releases the clients, and whatever is cancelled
\* meanwhile, each of them begins at most one command after a stop (server.c:76-98, 170-176).
THEOREM StopCorrect == Spec => []StopHolds
<1>1. StopInv /\ [Next]_srvVars => StopInv'
  BY StopNext
<1>2. StopInv => StopHolds
  <2> SUFFICES ASSUME StopInv, NEW c \in Clients PROVE ran[c] <= 1
    BY DEF StopHolds
  <2>1. ran[c] = 0 \/ ran[c] = 1
    BY DEF StopInv, SpentIsHeld
  <2> QED BY <2>1
<1> QED BY StopInit, <1>1, <1>2, PTL DEF Spec

---------------------------------------------------------------------------------
(* The list of clients.                                                          *)

\* Where a thread is in delete_all, and the client in its hands.
Errands  == {"console", "sigwait", "delete", "unhead", "uncount", "cancel", "crashed",
             "poll", "waiting", "cleanup", "exited"}
Stations == [pc : Errands, cur : Clients \cup {None}]

LinkTypes == /\ next \in [Clients -> Clients \cup {None}]
             /\ prev \in [Clients -> Clients \cup {None}]
             /\ head \in Clients \cup {None}
             /\ del \in [Killers -> Stations]

\* Whoever is between the two halves of its registration has the list to itself.
Linking == \A c \in Clients :
    At(c) = "link" => listMutex = c /\ next[c] = head /\ (head # None => prev[head] = c)

\* Both ways along the list, but for the prev of the head, which nobody follows.
BothWays ==
    /\ head \in Registered \cup {None}
    /\ \A c \in Registered : /\ next[c] \in Registered \cup {None}
                             /\ next[c] # None => (next[c] # head /\ prev[next[c]] = c)
    /\ \A c \in Registered \ {head} : prev[c] \in Registered /\ next[prev[c]] = c

NobodyDeletes == \A a \in Killers : del[a].pc \in {"console", "sigwait"}
\* Who follows next from the head comes by every registered client.
AllReached == \A s \in SUBSET Registered : head \in s \cup {None} /\ Closed(s) => s = Registered

FreedEnded == \A c \in Clients \cap freed : At(c) = "ended"

ListInv ==
    /\ StopInv /\ LinkTypes /\ FreedEnded
    /\ ~deleting => NobodyDeletes /\ Linking /\ BothWays /\ AllReached

LEMMA Reached ==
    ASSUME BothWays, AllReached
    PROVE  Chain(head) = Registered
<1>1. Registered \in SUBSET Clients /\ Closed(Registered)
  BY DEF Registered, BothWays, Closed
<1>2. Chain(head) \subseteq Registered
  BY <1>1 DEF Chain, BothWays
<1>3. ASSUME NEW s \in SUBSET Clients, head \in s \cup {None}, Closed(s)
      PROVE  Registered \subseteq s
  <2>1. head \in (s \cap Registered) \cup {None} /\ Closed(s \cap Registered)
    BY <1>1, <1>3 DEF BothWays, Closed
  <2> QED BY <2>1 DEF AllReached
<1>4. Registered \subseteq Chain(head)
  BY <1>1, <1>3 DEF Chain
<1> QED BY <1>2, <1>4

LEMMA ListInit == ASSUME Init PROVE ListInv
<1>1. /\ th = [c \in Clients |-> [pc |-> "none", copy |-> 0]] /\ freed = {} /\ head = None
      /\ next = [c \in Clients |-> None] /\ prev = [c \in Clients |-> None]
      /\ del = [a \in Killers |-> [pc |-> IF a = Main THEN "console" ELSE "sigwait", cur |-> None]]
  BY DEF Init
<1>2. \A c \in Clients : At(c) = "none"
  BY <1>1 DEF At
<1>3. Registered = {}
  BY <1>2 DEF Registered
<1>4. LinkTypes /\ NobodyDeletes
  <2>1. ASSUME NEW a \in Killers PROVE del[a] \in Stations
    <3>1. del[a] = [pc |-> "console", cur |-> None] \/ del[a] = [pc |-> "sigwait", cur |-> None]
      BY <1>1
    <3> QED BY <3>1 DEF Stations, Errands
  <2>2. NobodyDeletes
    BY <1>1 DEF NobodyDeletes
  <2> QED BY <1>1, <2>1, <2>2 DEF LinkTypes
<1>5. AllReached
  BY <1>3 DEF AllReached
<1>6. FreedEnded /\ Linking /\ BothWays
  BY <1>1, <1>2, <1>3 DEF FreedEnded, Linking, BothWays
<1> QED BY <1>4, <1>5, <1>6, StopInit DEF ListInv

\* A step that leaves the list alone.
LEMMA ListFrame ==
    ASSUME ListInv, StopInv', LinkTypes', UNCHANGED <<listVars, freed>>, Registered' = Registered,
           \A c \in Clients : At(c)' = At(c) \/ {At(c), At(c)'} \cap {"link", "ended"} = {},
           ~deleting' => ~deleting /\ (NobodyDeletes => NobodyDeletes')
    PROVE  ListInv'
<1>1. FreedEnded'
  BY DEF ListInv, FreedEnded
<1>2. ASSUME ~deleting'
      PROVE  NobodyDeletes' /\ Linking' /\ BothWays' /\ AllReached'
  <2>1. NobodyDeletes /\ Linking /\ BothWays /\ AllReached
    BY <1>2 DEF ListInv
  <2>2. Linking'
    BY <2>1 DEF Linking, listVars
  <2>3. BothWays'
    BY <2>1 DEF BothWays, listVars
  <2>4. AllReached'
    BY <2>1 DEF AllReached, Closed, listVars
  <2> QED BY <1>2, <2>1, <2>2, <2>3, <2>4
<1> QED BY <1>1, <1>2 DEF ListInv

\* Once the server shuts down nothing more is claimed of the list.
LEMMA ListDeletes ==
    ASSUME ListInv, StopInv', LinkTypes', UNCHANGED <<th, freed>>, deleting'
    PROVE  ListInv'
  BY DEF ListInv, FreedEnded, At

-----------------------------------------------------------------------------------
(* The list grows and shrinks.                                                     *)

LEMMA ListLinkNext ==
    ASSUME None \notin Clients, ListInv, StopInv', NEW c \in Clients, LinkNext(c)
    PROVE  ListInv'
<1>1. /\ At(c) = "register" /\ listMutex = None /\ listMutex' = c
      /\ next' = [next EXCEPT ![c] = head]
      /\ prev' = (IF head = None THEN prev ELSE [prev EXCEPT ![head] = c])
      /\ Goto(c, "link") /\ UNCHANGED <<freed, head, del, deleting>> /\ StopInv
  BY DEF LinkNext, mainVars, ListInv
<1>2. At(c)' = "link" /\ \A d \in Clients \ {c} : At(d)' = At(d)
  <2>1. "link" \in Places
    BY DEF Places
  <2> QED BY <1>1, <2>1, Moved DEF At
<1>3. Registered' = Registered /\ c \notin Registered
  BY <1>1, <1>2 DEF Registered
<1>4. LinkTypes /\ LinkTypes'
  BY <1>1 DEF ListInv, LinkTypes
<1>5. FreedEnded'
  BY <1>1, <1>2 DEF ListInv, FreedEnded
<1>6. ASSUME ~deleting'
      PROVE  NobodyDeletes' /\ Linking' /\ BothWays' /\ AllReached'
  <2>1. NobodyDeletes /\ Linking /\ BothWays /\ AllReached
    BY <1>1, <1>6 DEF ListInv
  <2>2. next'[c] = head /\ \A d \in Clients \ {c} : next'[d] = next[d]
    BY <1>1, <1>4 DEF LinkTypes
  <2>3. /\ head # None => prev'[head] = c
        /\ \A d \in Clients \ {head} : prev'[d] = prev[d]
    BY <1>1, <1>4 DEF LinkTypes
  <2>4. Linking'
    <3>1. \A d \in Clients : At(d) # "link"
      BY <1>1, <2>1 DEF Linking
    <3> QED BY <1>1, <1>2, <2>2, <2>3, <3>1 DEF Linking
  <2>5. BothWays'
    <3>1. ASSUME NEW d \in Registered
          PROVE  /\ next'[d] \in Registered \cup {None}
                 /\ next'[d] # None => (next'[d] # head /\ prev'[next'[d]] = d)
      <4>1. d \in Clients /\ d # c
        BY <1>3 DEF Registered
      <4>2. next'[d] = next[d] /\ next[d] \in Registered \cup {None} /\ Registered \subseteq Clients
        BY <2>1, <2>2, <4>1 DEF BothWays, Registered
      <4> QED BY <2>1, <2>3, <4>2 DEF BothWays
    <3>2. ASSUME NEW d \in Registered \ {head} PROVE prev'[d] \in Registered /\ next'[prev'[d]] = d
      <4>1. prev'[d] = prev[d] /\ prev[d] \in Registered /\ next[prev[d]] = d /\ Registered \subseteq Clients
        BY <2>1, <2>3 DEF BothWays, Registered
      <4> QED BY <1>3, <2>2, <4>1
    <3> QED BY <1>1, <1>3, <2>1, <3>1, <3>2 DEF BothWays
  <2>6. AllReached'
    <3>1. \A s \in SUBSET Registered : Closed(s)' => Closed(s)
      BY <1>3, <2>2 DEF Closed, Registered
    <3> QED BY <1>1, <1>3, <2>1, <3>1 DEF AllReached
  <2>7. NobodyDeletes'
    BY <1>1, <2>1 DEF NobodyDeletes
  <2> QED BY <2>4, <2>5, <2>6, <2>7
<1> QED BY <1>4, <1>5, <1>6 DEF ListInv

LEMMA ListLinkHead ==
    ASSUME None \notin Clients, ListInv, StopInv', NEW c \in Clients, LinkHead(c)
    PROVE  ListInv'
<1>1. /\ At(c) = "link" /\ head' = c /\ Goto(c, "count") /\ UNCHANGED <<freed, next, prev, del, deleting>> /\ StopInv
  BY DEF LinkHead, mainVars, ListInv
<1>2. At(c)' = "count" /\ \A d \in Clients \ {c} : At(d)' = At(d)
  <2>1. "count" \in Places
    BY DEF Places
  <2> QED BY <1>1, <2>1, Moved DEF At
<1>3. Registered' = Registered \cup {c} /\ c \notin Registered /\ Registered \subseteq Clients
  BY <1>1, <1>2 DEF Registered
<1>4. LinkTypes /\ LinkTypes'
  BY <1>1 DEF ListInv, LinkTypes
<1>5. FreedEnded'
  BY <1>1, <1>2 DEF ListInv, FreedEnded
<1>6. ASSUME ~deleting'
      PROVE  NobodyDeletes' /\ Linking' /\ BothWays' /\ AllReached'
  <2>1. NobodyDeletes /\ Linking /\ BothWays /\ AllReached
    BY <1>1, <1>6 DEF ListInv
  <2>2. next[c] = head /\ (head # None => prev[head] = c) /\ \A d \in Clients \ {c} : At(d) # "link"
    BY <1>1, <2>1 DEF Linking
  <2>3. Linking'
    BY <1>2, <2>2 DEF Linking
  <2>4. BothWays'
    <3>1. head \in Registered \cup {None} /\ c # None
      BY <2>1 DEF BothWays
    <3>2. ASSUME NEW d \in Registered \cup {c}
          PROVE  /\ next[d] \in Registered \cup {None}
                 /\ next[d] # None => (next[d] # c /\ prev[next[d]] = d)
      <4>1. next[d] \in Registered \cup {None} /\ (next[d] # None => prev[next[d]] = d)
        BY <2>1, <2>2, <3>1 DEF BothWays
      <4> QED BY <1>3, <4>1
    <3>3. ASSUME NEW d \in Registered PROVE prev[d] \in Registered \cup {c} /\ next[prev[d]] = d
      <4>1. CASE d = head
        BY <1>3, <2>2, <3>1, <4>1
      <4>2. CASE d # head
        BY <2>1, <4>2 DEF BothWays
      <4> QED BY <4>1, <4>2
    <3> QED BY <1>1, <1>3, <3>2, <3>3 DEF BothWays
  <2>5. AllReached'
    <3> SUFFICES ASSUME NEW s \in SUBSET (Registered \cup {c}), c \in s \cup {None}, Closed(s)
                 PROVE  s = Registered \cup {c}
      BY <1>1, <1>3 DEF AllReached, Closed
    <3>1. c \in s
      OBVIOUS
    <3>2. head \in (s \ {c}) \cup {None}
      BY <1>3, <2>1, <2>2, <3>1 DEF Closed, BothWays
    <3>3. Closed(s \ {c})
      BY <1>3, <2>1 DEF Closed, BothWays
    <3>4. s \ {c} = Registered
      BY <2>1, <3>2, <3>3 DEF AllReached
    <3> QED BY <3>1, <3>4
  <2>6. NobodyDeletes'
    BY <1>1, <2>1 DEF NobodyDeletes
  <2> QED BY <2>3, <2>4, <2>5, <2>6
<1> QED BY <1>4, <1>5, <1>6 DEF ListInv

LEMMA ListRemove ==
    ASSUME None \notin Clients, ListInv, StopInv', NEW c \in Clients, RemoveFromList(c)
    PROVE  ListInv'
<1> DEFINE inside == head # c /\ c \in Chain(head)
<1>1. /\ At(c) = "unlist" /\ listMutex = None /\ Goto(c, "ended") /\ UNCHANGED <<del, deleting>> /\ StopInv
      /\ head' = IF head = c THEN next[c] ELSE head
      /\ next' = [x \in Clients |-> IF x = c THEN None
                                    ELSE IF inside /\ x = prev[c] THEN next[c] ELSE next[x]]
      /\ prev' = [x \in Clients |-> IF x = c THEN None
                                    ELSE IF inside /\ x = next[c] THEN prev[c] ELSE prev[x]]
      /\ freed' = freed \cup {c}
  BY DEF RemoveFromList, mainVars, ListInv
<1> HIDE DEF inside
<1>2. At(c)' = "ended" /\ \A d \in Clients \ {c} : At(d)' = At(d)
  <2>1. "ended" \in Places
    BY DEF Places
  <2> QED BY <1>1, <2>1, Moved DEF At
<1>3. Registered' = Registered \ {c} /\ c \in Registered /\ Registered \subseteq Clients
  BY <1>1, <1>2 DEF Registered
<1>4. LinkTypes /\ LinkTypes'
  <2>1. LinkTypes
    BY DEF ListInv
  <2> QED BY <1>1, <2>1 DEF LinkTypes
<1>5. FreedEnded'
  BY <1>1, <1>2 DEF ListInv, FreedEnded
<1>6. ASSUME ~deleting'
      PROVE  NobodyDeletes' /\ Linking' /\ BothWays' /\ AllReached'
  <2>1. NobodyDeletes /\ Linking /\ BothWays /\ AllReached /\ Chain(head) = Registered
    BY <1>1, <1>6, Reached DEF ListInv
  <2>2. inside <=> head # c
    BY <1>3, <2>1 DEF inside
  <2>3. Linking'
    BY <1>1, <1>2, <2>1 DEF Linking
  <2>s. next[c] # c
    <3> SUFFICES ASSUME next[c] = c PROVE FALSE
      OBVIOUS
    <3> DEFINE s == Registered \ {c}
    <3>1. head # c /\ prev[c] = c
      BY <1>3, <2>1 DEF BothWays
    <3>2. head \in s \cup {None}
      BY <2>1, <3>1 DEF BothWays
    <3>3. \A d \in s : next[d] \in s \cup {None}
      BY <1>3, <2>1, <3>1 DEF BothWays
    <3>4. s = Registered
      BY <2>1, <3>2, <3>3 DEF AllReached, Closed
    <3> QED BY <1>3, <3>4
  <2>r. Registered \subseteq Clients /\ None \notin Registered
    BY <1>3
  <2>h. /\ head \in Registered \cup {None} /\ next[c] \in Registered \cup {None} /\ next[c] # c
        /\ next[c] # None => (next[c] # head /\ prev[next[c]] = c)
        /\ head # c => prev[c] \in Registered /\ next[prev[c]] = c /\ prev[c] # c
    <3>1. /\ head \in Registered \cup {None} /\ next[c] \in Registered \cup {None}
          /\ next[c] # None => (next[c] # head /\ prev[next[c]] = c)
      BY <1>3, <2>1 DEF BothWays
    <3>2. head # c => prev[c] \in Registered /\ next[prev[c]] = c
      BY <1>3, <2>1 DEF BothWays
    <3> QED BY <2>s, <3>1, <3>2
  <2>4. BothWays'
    <3>1. head' \in (Registered \ {c}) \cup {None}
      BY <1>1, <2>h
    <3>2. ASSUME NEW d \in Registered \ {c}
          PROVE  /\ next'[d] \in (Registered \ {c}) \cup {None}
                 /\ next'[d] # None => (next'[d] # head' /\ prev'[next'[d]] = d)
      <4>0. /\ next[d] \in Registered \cup {None}
            /\ next[d] # None => (next[d] # head /\ prev[next[d]] = d)
        BY <2>1 DEF BothWays
      <4>1. CASE head = c
        <5>1. next'[d] = next[d] /\ head' = next[c] /\ next[d] # c
          BY <1>1, <1>3, <2>2, <4>0, <4>1
        <5>2. next[d] # None => prev'[next[d]] = prev[next[d]]
          BY <1>1, <1>3, <2>2, <4>0, <4>1, <5>1
        <5>3. next[d] # None => next[d] # next[c]
          BY <2>h, <4>0
        <5> QED BY <4>0, <5>1, <5>2, <5>3
      <4>2. CASE head # c /\ d = prev[c]
        <5>1. next'[d] = next[c] /\ head' = head
          BY <1>1, <1>3, <2>2, <4>2
        <5>2. next[c] # None => prev'[next[c]] = prev[c]
          BY <1>1, <1>3, <2>2, <2>h, <4>2
        <5> QED BY <2>h, <4>2, <5>1, <5>2
      <4>3. CASE head # c /\ d # prev[c]
        <5>1. next'[d] = next[d] /\ head' = head /\ next[d] # c
          BY <1>1, <1>3, <2>2, <4>0, <4>3
        <5>2. next[d] # None => next[d] # next[c]
          BY <2>h, <4>0
        <5>3. next[d] # None => prev'[next[d]] = prev[next[d]]
          BY <1>1, <1>3, <2>2, <4>0, <4>3, <5>1, <5>2
        <5> QED BY <4>0, <5>1, <5>3
      <4> QED BY <4>1, <4>2, <4>3
    <3>3. ASSUME NEW d \in Registered \ {c}, d # head'
          PROVE  prev'[d] \in Registered \ {c} /\ next'[prev'[d]] = d
      <4>1. CASE head = c
        <5>1. d # next[c] /\ prev[d] \in Registered /\ next[prev[d]] = d
          BY <1>1, <2>1, <3>3, <4>1 DEF BothWays
        <5>2. prev'[d] = prev[d] /\ prev[d] # c
          BY <1>1, <1>3, <2>2, <4>1, <5>1
        <5> QED BY <1>1, <1>3, <2>2, <4>1, <5>1, <5>2
      <4>2. CASE head # c
        <5>1. prev[d] \in Registered /\ next[prev[d]] = d
          BY <1>1, <2>1, <3>3, <4>2 DEF BothWays
        <5>2. CASE d = next[c]
          <6>1. prev'[d] = prev[c]
            BY <1>1, <1>3, <2>2, <4>2, <5>2
          <6> QED BY <1>1, <1>3, <2>2, <2>h, <4>2, <5>2, <6>1
        <5>3. CASE d # next[c]
          <6>1. prev'[d] = prev[d] /\ prev[d] # c
            BY <1>1, <1>3, <2>2, <4>2, <5>1, <5>3
          <6>2. prev[d] # prev[c]
            BY <2>h, <4>2, <5>1
          <6> QED BY <1>1, <1>3, <2>2, <4>2, <5>1, <6>1, <6>2
        <5> QED BY <5>2, <5>3
      <4> QED BY <4>1, <4>2
    <3> QED BY <1>3, <3>1, <3>2, <3>3 DEF BothWays
  <2>5. AllReached'
    <3> SUFFICES ASSUME NEW s \in SUBSET (Registered \ {c}), head' \in s \cup {None}, Closed(s)'
                 PROVE  s = Registered \ {c}
      BY <1>3 DEF AllReached
    <3>1. CASE head = c
      <4>1. \A d \in s : next'[d] = next[d]
        BY <1>1, <1>3, <2>2, <3>1
      <4>2. Closed(s \cup {c})
        BY <1>1, <3>1, <4>1 DEF Closed
      <4>3. s \cup {c} = Registered
        BY <1>3, <2>1, <3>1, <4>2 DEF AllReached
      <4> QED BY <4>3
    <3>2. CASE head # c /\ prev[c] \in s
      <4>1. /\ next'[prev[c]] = next[c] /\ next[prev[c]] = c
            /\ \A d \in s \ {prev[c]} : next'[d] = next[d]
        BY <1>1, <1>3, <2>2, <2>h, <3>2
      <4>2. Closed(s \cup {c})
        BY <3>2, <4>1 DEF Closed
      <4>3. s \cup {c} = Registered
        BY <1>1, <1>3, <2>1, <3>2, <4>2 DEF AllReached
      <4> QED BY <4>3
    <3>3. CASE head # c /\ prev[c] \notin s
      <4>1. \A d \in s : next'[d] = next[d]
        BY <1>1, <1>3, <2>2, <3>3
      <4>2. Closed(s)
        BY <4>1 DEF Closed
      <4>3. s = Registered
        BY <1>1, <1>3, <2>1, <3>3, <4>2 DEF AllReached
      <4> QED BY <1>3, <4>3
    <3> QED BY <3>1, <3>2, <3>3
  <2>6. NobodyDeletes'
    BY <1>1, <2>1 DEF NobodyDeletes
  <2> QED BY <2>3, <2>4, <2>5, <2>6
<1> QED BY <1>4, <1>5, <1>6 DEF ListInv

-----------------------------------------------------------------------------------
(* The other steps.                                                                *)

\* A client that moves otherwise.
LEMMA ListMove ==
    ASSUME ListInv, StopInv', NEW c \in Clients, NEW q \in Places, At(c)' = q,
           \A d \in Clients \ {c} : At(d)' = At(d),
           {At(c), q} \cap {"link", "ended"} = {}, At(c) \in {"none", "register"} <=> q \in {"none", "register"},
           UNCHANGED <<listVars, freed, deleting>>, LinkTypes', NobodyDeletes => NobodyDeletes'
    PROVE  ListInv'
<1>1. Registered' = Registered
  BY DEF Registered
<1> QED BY <1>1, ListFrame

LEMMA ListClient ==
    ASSUME None \notin Clients, ListInv, StopInv', NEW c \in Clients, ClientStep(c)
    PROVE  ListInv'
<1>0. {"register", "link", "count", "counting", "test", "falling asleep", "asleep", "serve", "uncount",
       "uncounting", "unlist", "ended"} \subseteq Places /\ StopInv /\ LinkTypes
  BY DEF Places, ListInv
<1>1. CASE LinkNext(c) \/ LinkHead(c) \/ RemoveFromList(c)
  BY <1>1, ListLinkNext, ListLinkHead, ListRemove
<1>2. CASE Accept(c) \/ Pass(c) \/ MustWait(c) \/ Sleep(c) \/ Wake(c) \/ Receive(c) \/ HangUp(c) \/ CancelActs(c)
  <2>1. UNCHANGED <<listVars, freed, deleting, del>>
    BY <1>2 DEF Accept, Pass, MustWait, Sleep, Wake, Receive, HangUp, CancelActs, mainVars
  <2>2. PICK q \in {"register", "serve", "falling asleep", "asleep", "test", "uncount"} :
           /\ Goto(c, q) /\ At(c) \notin {"link", "ended"}
           /\ At(c) \in {"none", "register"} <=> q \in {"none", "register"}
    BY <1>2 DEF Accept, Pass, MustWait, Sleep, Wake, Receive, HangUp, CancelActs
  <2>3. At(c)' = q /\ \A d \in Clients \ {c} : At(d)' = At(d)
    BY <1>0, <2>2, Moved DEF At
  <2>4. LinkTypes' /\ (NobodyDeletes => NobodyDeletes')
    BY <1>0, <2>1 DEF LinkTypes, NobodyDeletes, listVars
  <2>5. {At(c), q} \cap {"link", "ended"} = {} /\ q \in Places
    BY <1>0, <2>2
  <2> QED BY <2>1, <2>2, <2>3, <2>4, <2>5, ListMove
<1>3. CASE CountUp(c) \/ CountDown(c) \/ CountedUp(c) \/ CountedDown(c)
  <2>1. UNCHANGED <<listVars, freed, deleting>>
    BY <1>3 DEF CountUp, CountDown, CountedUp, CountedDown, LoadNum, mainVars
  <2>2. PICK q \in {"counting", "uncounting", "test", "unlist"}, n \in {num, 0} :
           th' = [th EXCEPT ![c] = [pc |-> q, copy |-> n]] /\ At(c) \in {"count", "uncount", "counting", "uncounting"}
    BY <1>3 DEF CountUp, CountDown, CountedUp, CountedDown, LoadNum
  <2>3. At(c)' = q /\ \A d \in Clients \ {c} : At(d)' = At(d)
    BY <1>0, <2>2 DEF At, StopInv, StopTypes
  <2>4. LinkTypes' /\ (NobodyDeletes => NobodyDeletes')
    <3>1. CASE del' = del
      BY <1>0, <2>1, <3>1 DEF LinkTypes, NobodyDeletes, listVars
    <3>2. CASE del' = [del EXCEPT ![Main].pc = IF del[Main].pc = "waiting" THEN "poll" ELSE del[Main].pc]
      <4>1. Main \in Killers /\ del \in [Killers -> Stations]
        BY <1>0 DEF LinkTypes, Killers
      <4>2. /\ del' \in [Killers -> Stations]
            /\ del'[Main].pc = (IF del[Main].pc = "waiting" THEN "poll" ELSE del[Main].pc)
            /\ \A a \in Killers \ {Main} : del'[a] = del[a]
        <5>1. del[Main] \in Stations
          BY <4>1
        <5> DEFINE q1 == IF del[Main].pc = "waiting" THEN "poll" ELSE del[Main].pc
                   f  == [del[Main] EXCEPT !.pc = q1]
        <5>2. del' = [del EXCEPT ![Main] = f]
          BY <3>2, <4>1, <5>1
        <5>3. q1 \in Errands
          BY <5>1 DEF Stations, Errands
        <5> HIDE DEF q1
        <5>4. f \in Stations /\ f.pc = q1
          BY <5>1, <5>3 DEF Stations, Errands
        <5> HIDE DEF f
        <5>5. /\ del' \in [Killers -> Stations] /\ del'[Main].pc = q1
              /\ \A a \in Killers \ {Main} : del'[a] = del[a]
          BY <4>1, <5>2, <5>4
        <5> QED BY <5>5 DEF q1
      <4> QED BY <1>0, <2>1, <4>1, <4>2 DEF LinkTypes, NobodyDeletes, listVars
    <3> QED BY <1>3, <3>1, <3>2 DEF CountUp, CountDown, CountedUp, CountedDown, LoadNum, mainVars
  <2>5. {At(c), q} \cap {"link", "ended"} = {} /\ q \in Places
    BY <1>0, <2>2
  <2> QED BY <2>1, <2>2, <2>3, <2>4, <2>5, ListMove
<1> QED BY <1>1, <1>2, <1>3 DEF ClientStep

\* A broadcast moves the sleepers, who are all registered.
LEMMA ListConsole ==
    ASSUME ListInv, StopInv', ClientControlStop \/ ClientControlRelease
    PROVE  ListInv'
<1>1. Broadcast /\ UNCHANGED <<listVars, freed, deleting, del>> /\ StopInv /\ LinkTypes
  BY DEF ClientControlStop, ClientControlRelease, mainVars, ListInv
<1>2. \A c \in Clients : At(c)' = (IF At(c) = "asleep" THEN "awake" ELSE At(c))
  <2> TAKE c \in Clients
  <2>1. th'[c] = [th[c] EXCEPT !.pc = IF th[c].pc = "asleep" THEN "awake" ELSE th[c].pc]
    BY <1>1 DEF Broadcast
  <2>2. th[c] \in [pc : Places, copy : Int]
    BY <1>1 DEF StopInv, StopTypes
  <2> QED BY <2>1, <2>2 DEF At
<1>3. Registered' = Registered
  BY <1>2 DEF Registered
<1>4. LinkTypes' /\ (NobodyDeletes => NobodyDeletes')
  BY <1>1 DEF LinkTypes, NobodyDeletes, listVars
<1>5. \A c \in Clients : At(c)' = At(c) \/ {At(c), At(c)'} \cap {"link", "ended"} = {}
  BY <1>2
<1> QED BY <1>1, <1>3, <1>4, <1>5, ListFrame

\* While nobody deletes, main and the SIGINT thread take no step of delete_all.
LEMMA ListOthers ==
    ASSUME ListInv, StopInv', Sigint \/ EndOfInput \/ (\E a \in Killers : DeleteAll(a)) \/ Poll \/ DbCleanup
    PROVE  ListInv'
<1>0. LinkTypes /\ Main \in Killers /\ Sig \in Killers /\ (~deleting => NobodyDeletes)
  BY DEF ListInv, Killers
<1>1. UNCHANGED <<th, freed, next, prev>>
  BY DEF Sigint, EndOfInput, DeleteAll, DeletePick, DeleteUnhead, DeleteCount, DeleteCancel, Poll, DbCleanup,
         clientVars, listVars
<1>2. deleting'
  BY <1>0 DEF Sigint, EndOfInput, DeleteAll, DeletePick, DeleteUnhead, DeleteCount, DeleteCancel, Poll, DbCleanup,
              NobodyDeletes
<1>3. head' \in Clients \cup {None}
  <2>1. head' = head \/ (head # None /\ head' = next[head])
    BY DEF Sigint, EndOfInput, DeleteAll, DeletePick, DeleteUnhead, DeleteCount, DeleteCancel, Poll, DbCleanup,
           listVars
  <2> QED BY <1>0, <2>1 DEF LinkTypes
<1>4. del' \in [Killers -> Stations]
  <2>1. ASSUME NEW a \in Killers, NEW f \in Stations, Step(a, f)
        PROVE  del' \in [Killers -> Stations]
    BY <1>0, <2>1 DEF LinkTypes, Step
  <2>2. \A a \in Killers : del[a] \in Stations
    BY <1>0 DEF LinkTypes
  <2>3. CASE Sigint \/ EndOfInput
    <3>1. /\ [del[Sig] EXCEPT !.pc = "delete"] \in Stations
          /\ [del[Main] EXCEPT !.pc = "delete"] \in Stations
      BY <1>0, <2>2 DEF Stations, Errands
    <3>2. Step(Sig, [del[Sig] EXCEPT !.pc = "delete"]) \/ Step(Main, [del[Main] EXCEPT !.pc = "delete"])
      BY <2>3 DEF Sigint, EndOfInput
    <3> QED BY <1>0, <2>1, <3>1, <3>2
  <2>4. CASE Poll \/ DbCleanup
    <3>1. PICK q \in {"waiting", "cleanup", "exited"} : Step(Main, [del[Main] EXCEPT !.pc = q])
      BY <2>4 DEF Poll, DbCleanup
    <3>2. [del[Main] EXCEPT !.pc = q] \in Stations
      BY <1>0, <2>2 DEF Stations, Errands
    <3> QED BY <1>0, <2>1, <3>1, <3>2
  <2>5. ASSUME NEW a \in Killers, DeletePick(a)
        PROVE  del' \in [Killers -> Stations]
    <3>1. CASE head # None
      <4>1. [del[a] EXCEPT !.pc = "unhead", !.cur = head] \in Stations
        BY <1>0, <2>2, <3>1 DEF LinkTypes, Stations, Errands
      <4>2. Step(a, [del[a] EXCEPT !.pc = "unhead", !.cur = head])
        BY <2>5, <3>1 DEF DeletePick
      <4> QED BY <2>1, <4>1, <4>2
    <3>2. CASE head = None
      <4>1. PICK q \in {"poll", "sigwait"} : Step(a, [del[a] EXCEPT !.pc = q])
        BY <2>5, <3>2 DEF DeletePick
      <4>2. [del[a] EXCEPT !.pc = q] \in Stations
        BY <2>2 DEF Stations, Errands
      <4> QED BY <2>1, <4>1, <4>2
    <3> QED BY <3>1, <3>2
  <2>6. ASSUME NEW a \in Killers, DeleteUnhead(a) \/ DeleteCount(a)
        PROVE  del' \in [Killers -> Stations]
    <3>1. PICK q \in {"crashed", "uncount", "cancel"} : Step(a, [del[a] EXCEPT !.pc = q])
      BY <2>6 DEF DeleteUnhead, DeleteCount
    <3>2. [del[a] EXCEPT !.pc = q] \in Stations
      BY <2>2 DEF Stations, Errands
    <3> QED BY <2>1, <3>1, <3>2
  <2>7. ASSUME NEW a \in Killers, DeleteCancel(a)
        PROVE  del' \in [Killers -> Stations]
    <3>1. [del[a] EXCEPT !.pc = "delete", !.cur = None] \in Stations
      BY <2>2 DEF Stations, Errands
    <3>2. Step(a, [del[a] EXCEPT !.pc = "delete", !.cur = None])
      BY <2>7 DEF DeleteCancel
    <3> QED BY <2>1, <3>1, <3>2
  <2> QED BY <2>3, <2>4, <2>5, <2>6, <2>7 DEF DeleteAll
<1> QED BY <1>0, <1>1, <1>2, <1>3, <1>4, ListDeletes DEF LinkTypes

\* Until somebody runs delete_all the list leads from its head to every client between its
\* registration and its cleanup and to no other, none of them freed, and back again, so
\* that remove_from_list unhooks the right one (server.c:146-157, 204-240).
THEOREM ListCorrect == ASSUME None \notin Clients PROVE Spec => []ListSound
<1>1. ListInv /\ StopInv' /\ [Next]_srvVars => ListInv'
  <2> SUFFICES ASSUME ListInv, StopInv', [Next]_srvVars PROVE ListInv'
    OBVIOUS
  <2>1. CASE Next
    BY <2>1, ListClient, ListConsole, ListOthers DEF Next
  <2>2. CASE UNCHANGED srvVars
    <3>1. Registered' = Registered /\ LinkTypes' /\ (NobodyDeletes => NobodyDeletes') /\ \A c \in Clients : At(c)' = At(c)
      BY <2>2 DEF srvVars, clientVars, listVars, mainVars, Registered, At, ListInv, LinkTypes, NobodyDeletes
    <3> QED BY <2>2, <3>1, ListFrame DEF srvVars, clientVars, mainVars
  <2> QED BY <2>1, <2>2
<1>2. ListInv => ListSound
  <2> SUFFICES ASSUME ListInv, ~deleting PROVE ListSound
    BY DEF ListSound
  <2>1. BothWays /\ Chain(head) = Registered /\ FreedEnded
    BY Reached DEF ListInv
  <2>2. Registered \cap freed = {}
    BY <2>1 DEF FreedEnded, Registered
  <2>3. \A c \in Registered : c \in Clients
    BY DEF Registered
  <2> QED BY <2>1, <2>2, <2>3 DEF ListSound, BothWays
<1>3. Spec => []StopInv
  <2>1. StopInv /\ [Next]_srvVars => StopInv'
    BY StopNext
  <2> QED BY <2>1, StopInit, PTL DEF Spec
<1>4. Init => ListInv
  BY ListInit
<1> QED BY <1>1, <1>2, <1>3, <1>4, PTL DEF Spec
=================================================================================
