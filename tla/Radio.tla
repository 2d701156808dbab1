--------------------------------- MODULE Radio ----------------------------------
(***************************************************************************)
(* The client of the internet radio, systems/cs033/lab10/networking.c: one *)
(* process that selects among a TCP connection to the server, a UDP socket *)
(* for the music, and the terminal.  A TCP connection has no messages: the *)
(* bytes arrive in pieces of any length, and the client, which reads each  *)
(* field with one read(), gives up when a piece ends in a field.  The      *)
(* server is not in the repository.                                        *)
(*                                                                         *)
(* The loops over the addresses forget their errors.  When no address can  *)
(* be bound, udp_socket is the number of a closed descriptor, which is the *)
(* one that the next socket() returns: the client then reads music from    *)
(* its TCP connection.                                                     *)
(***************************************************************************)
EXTENDS Integers, SequencesExt, FiniteSetsExt

CONSTANTS B,           \* the number of values of a byte
          Counts,      \* the numbers of stations a server may have, in network order
          Texts,       \* song names and replies
          Lines,       \* what the user may type
          MaxSaid,     \* bound on the server's messages
          MaxTyped     \* bound on the lines typed

VARIABLES bound,       \* udp_socket is not tcp_socket
          pc, ready,   \* what main does; the descriptors of this turn's `inputs`
          reply_type, size,
          stations,
          stream,      \* what the server wrote and the client has not read
          arrived,     \* how much of it has arrived
          hung,        \* the server has closed the connection
          said, shown, \* the messages written by the server, and on the terminal
          sent,        \* the messages written by the client
          typed        \* how many lines were typed

radioVars == <<bound, pc, ready, reply_type, size, stations, stream, arrived, hung, said,
               shown, sent, typed>>

WELCOME == 0
ANNOUNCE == 1
INVALID == 2

Bytes(m) == IF m[1] = WELCOME THEN <<WELCOME>> \o m[2] ELSE <<m[1], Len(m[2])>> \o m[2]
Messages == ({WELCOME} \X Counts) \cup ({ANNOUNCE, INVALID} \X Texts)

\* printf("%s") of the buffer, up to a NUL.
Printed(text) == SubSeq(text, 1, Min({i \in DOMAIN text : text[i] = 0} \cup {Len(text) + 1}) - 1)
Seen(m) == IF m[1] = WELCOME THEN m ELSE <<m[1], Printed(m[2])>>

Init ==
    /\ bound \in BOOLEAN
    /\ pc = "hello" /\ ready = {} /\ reply_type = 0 /\ size = 0 /\ stations = 0
    /\ stream = <<>> /\ arrived = 0 /\ hung = FALSE
    /\ said = <<>> /\ shown = <<>> /\ sent = <<>> /\ typed = 0

------------------------------------------------------------------------------
(* The server and the network *)

Say(m) == /\ sent # <<>> /\ ~hung /\ Len(said) < MaxSaid
          /\ said' = Append(said, m)
          /\ stream' = stream \o Bytes(m)
          /\ UNCHANGED <<bound, pc, ready, reply_type, size, stations, arrived, hung, shown, sent, typed>>

Arrive(n) == /\ arrived < n /\ n <= Len(stream)
             /\ arrived' = n
             /\ UNCHANGED <<bound, pc, ready, reply_type, size, stations, stream, hung, said, shown,
                            sent, typed>>

HangUp == /\ sent # <<>> /\ ~hung /\ arrived = Len(stream)
          /\ hung' = TRUE
          /\ UNCHANGED <<bound, pc, ready, reply_type, size, stations, stream, arrived, said, shown,
                         sent, typed>>

------------------------------------------------------------------------------
(* The client *)

clientVars == <<bound, hung, said>>
restVars   == <<stations, shown, sent, typed>>

\* Without a connection the write to the closed tcp_socket fails.
send_hello ==
    /\ pc = "hello"
    /\ \/ pc' = "select" /\ sent' = <<<<"HELLO">>>>
       \/ pc' = "failed" /\ UNCHANGED sent
    /\ UNCHANGED clientVars
    /\ UNCHANGED <<ready, reply_type, size, stations, stream, arrived, shown, typed>>

\* What main does after the TCP part of a turn, and after the UDP part.
AfterUdp(r) == IF "stdin" \in r THEN "stdin" ELSE "select"
AfterTcp(r) == IF "udp" \in r /\ ~bound THEN "udp" ELSE AfterUdp(r)

\* select(): a datagram is written to standard output whole, and has no other effect.
Select ==
    /\ pc = "select"
    /\ \E r \in SUBSET {"tcp", "udp", "stdin"} \ {{}} :
          /\ "tcp" \in r <=> arrived > 0 \/ hung
          /\ ~bound => ("udp" \in r <=> "tcp" \in r)
          /\ "stdin" \in r => typed < MaxTyped
          /\ ready' = r
          /\ pc' = IF "tcp" \in r THEN "type" ELSE AfterTcp(r)
    /\ UNCHANGED clientVars /\ UNCHANGED restVars
    /\ UNCHANGED <<reply_type, size, stream, arrived>>

\* read() of n bytes returns those that have arrived, none after the end, and waits for the
\* first; ok is what follows a read of all n.
Read(n, ok) ==
    /\ n = 0 \/ arrived > 0 \/ hung
    /\ LET k == Min({n, arrived})
       IN  /\ stream' = SubSeq(stream, k + 1, Len(stream))
           /\ arrived' = arrived - k
           /\ pc' = IF k = n THEN ok ELSE "failed"
    /\ UNCHANGED clientVars /\ UNCHANGED ready

ReplyType ==
    /\ pc = "type"
    /\ LET t == IF arrived > 0 THEN stream[1] ELSE 0
       IN  /\ Read(1, IF t = WELCOME THEN "count"
                      ELSE IF t \in {ANNOUNCE, INVALID} THEN "size" ELSE AfterTcp(ready))
           /\ reply_type' = t
    /\ UNCHANGED size /\ UNCHANGED restVars

\* Two bytes into the low half of an int, in the order of a little-endian machine.
Swapped(lo, hi) == lo + B * hi

\* send_set_station.
SetStation(n) == Append(sent, <<"SET_STATION", n>>)

Welcome ==
    /\ pc = "count"
    /\ Read(2, AfterTcp(ready))
    /\ IF arrived >= 2
       THEN /\ stations' = Swapped(stream[1], stream[2])
            /\ shown' = Append(shown, <<WELCOME, SubSeq(stream, 1, 2)>>)
            /\ sent' = SetStation(0)
       ELSE UNCHANGED <<stations, shown, sent>>
    /\ UNCHANGED <<reply_type, size, typed>>

ReplySize ==
    /\ pc = "size"
    /\ Read(1, "text")
    /\ size' = IF arrived > 0 THEN stream[1] ELSE size
    /\ UNCHANGED reply_type /\ UNCHANGED restVars

\* Mutant of Text: the terminating NUL is taken to be in the message.
TextWithNul ==
    /\ pc = "text"
    /\ Read(size + 1, IF reply_type = INVALID THEN "done" ELSE AfterTcp(ready))
    /\ shown' = IF arrived > size THEN Append(shown, <<reply_type, Printed(SubSeq(stream, 1, size))>>)
                ELSE shown
    /\ UNCHANGED <<reply_type, size, stations, sent, typed>>

\* The announcement, or the reply to an invalid command, after which the client leaves.
Text ==
    /\ pc = "text"
    /\ Read(size, IF reply_type = INVALID THEN "done" ELSE AfterTcp(ready))
    /\ shown' = IF arrived >= size THEN Append(shown, <<reply_type, Printed(SubSeq(stream, 1, size))>>)
                ELSE shown
    /\ UNCHANGED <<reply_type, size, stations, sent, typed>>

\* read() of udp_socket, which is tcp_socket: whatever has arrived.
Music ==
    /\ pc = "udp"
    /\ arrived > 0 \/ hung
    /\ stream' = SubSeq(stream, arrived + 1, Len(stream)) /\ arrived' = 0
    /\ pc' = AfterUdp(ready)
    /\ UNCHANGED clientVars /\ UNCHANGED restVars /\ UNCHANGED <<ready, reply_type, size>>

Value   == [d \in {"0", "1", "7"} |-> IF d = "0" THEN 0 ELSE IF d = "1" THEN 1 ELSE 7]
Digits  == DOMAIN Value
atoi(l) == FoldLeft(LAMBDA v, d : 10 * v + Value[d], 0, SelectSeq(l, LAMBDA d : d \in Digits))

\* handle_input, of a line without its leading blanks: "quit", "none", or the number it has.
\* A character that is no digit ends the number if a blank or the newline ("n") follows it:
\* "7 n" is 7, and "qq n" is no command, but "x n" is station 0.
handle_input(l) ==
    LET odd == {i \in DOMAIN l : l[i] \notin Digits}
        i   == Min(odd)
    IN  IF l[1] = "n" THEN "none"
        ELSE IF l = <<"q", "n">> THEN "quit"
        ELSE IF l[i] = "n" \/ l[i + 1] \in {" ", "n"} THEN "number"
        ELSE "none"

Digital(l) == SubSeq(l, 1, Min({i \in DOMAIN l : l[i] \notin Digits}) - 1)

Type(line) ==
    /\ pc = "stdin"
    /\ typed' = typed + 1
    /\ pc' = IF handle_input(line) = "quit" THEN "done" ELSE "select"
    /\ sent' = IF handle_input(line) = "number" /\ atoi(Digital(line)) < stations
               THEN SetStation(atoi(Digital(line))) ELSE sent
    /\ UNCHANGED clientVars
    /\ UNCHANGED <<ready, reply_type, size, stations, stream, arrived, shown>>

Next == \/ \E m \in Messages : Say(m)
        \/ \E n \in 1 .. Len(stream) : Arrive(n)
        \/ HangUp
        \/ send_hello \/ Select \/ ReplyType \/ Welcome \/ ReplySize \/ Text \/ Music
        \/ \E l \in Lines : Type(l)

Spec == Init /\ [][Next]_radioVars

------------------------------------------------------------------------------
Rest(k) == FlattenSeq([i \in 1 .. Len(said) - k |-> Bytes(said[k + i])])
Welcomes == {i \in DOMAIN shown : shown[i][1] = WELCOME}

\* A client with a port of its own shows the server's messages, in order and none of them
\* partly, and at each select the rest of the stream begins with a message, however the bytes
\* arrive; it tunes in once for each welcome and chooses no other station before the first;
\* and it leaves only when told to, by its user or by a reply to an invalid command.
ConversationRight ==
    bound =>
        /\ Len(shown) <= Len(said) /\ \A i \in DOMAIN shown : shown[i] = Seen(said[i])
        /\ pc \in {"select", "stdin", "done"} => stream = Rest(Len(shown))
        /\ Cardinality({i \in DOMAIN sent : sent[i] = <<"SET_STATION", 0>>}) >= Cardinality(Welcomes)
        /\ Welcomes = {} => Len(sent) <= 1
        /\ \A i \in 1 .. Len(shown) - 1 : shown[i][1] # INVALID
=================================================================================
