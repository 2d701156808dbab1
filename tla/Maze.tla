---------------------------------- MODULE Maze ----------------------------------
(***************************************************************************)
(* The maze programs of systems/cs033/maze: the generator makes a maze by  *)
(* a drunken walk and writes it as hexadecimal digits, the solver reads    *)
(* them and searches a path depth first.                                   *)
(*                                                                         *)
(* A room is its index; the stack holds the calls of the recursive         *)
(* function that runs, each with the room it is in and the directions it   *)
(* has still to look at.  The generator has shuffled them, so any may be   *)
(* next.  Both programs are given the same size.                           *)
(***************************************************************************)
EXTENDS Naturals, FiniteSets, SequencesExt

CONSTANTS num_rows, num_cols,
          Nowhere      \* a goal that is no room: a negative row or column is not refused

VARIABLES phase,       \* "walk", "start", "dfs", "solved" or "none", no valid path
          room,        \* room[r][d]: the connection of room r in direction d
          visited,
          stack,       \* the innermost call is the last
          nextp,       \* room->next
          goal,
          file         \* the rooms written to the path file

mazeVars == <<phase, room, visited, stack, nextp, goal, file>>

Rooms == 0..(num_rows * num_cols - 1)
Dirs  == {"NORTH", "SOUTH", "EAST", "WEST"}
Order == <<"NORTH", "SOUTH", "EAST", "WEST">>
NULL  == num_rows * num_cols

get_index(row, col) == row * num_cols + col
Row(r) == r \div num_cols
Col(r) == r % num_cols

get_opposite_dir(d) == CASE d = "NORTH" -> "SOUTH" [] d = "SOUTH" -> "NORTH"
                         [] d = "EAST" -> "WEST"   [] OTHER -> "EAST"

check_bounds(r, d) == /\ ~(Col(r) = 0 /\ d = "WEST")
                      /\ ~(Col(r) = num_cols - 1 /\ d = "EAST")
                      /\ ~(Row(r) = 0 /\ d = "NORTH")
                      /\ ~(Row(r) = num_rows - 1 /\ d = "SOUTH")

\* Used within the bounds only.
get_neighbor(r, d) == CASE d = "NORTH" -> get_index(Row(r) - 1, Col(r))
                        [] d = "SOUTH" -> get_index(Row(r) + 1, Col(r))
                        [] d = "EAST"  -> get_index(Row(r), Col(r) + 1)
                        [] OTHER       -> get_index(Row(r), Col(r) - 1)

zero_room == [d \in Dirs |-> "UNINITIALIZED"]

Init ==
    /\ phase = "walk"
    /\ room = [r \in Rooms |-> zero_room]
    /\ visited = {0}
    /\ stack = <<[room |-> 0, left |-> Dirs]>>
    /\ nextp = [r \in Rooms |-> NULL]
    /\ goal = Nowhere
    /\ file = <<>>

Top  == stack[Len(stack)]
Here == Top.room
Rest == SubSeq(stack, 1, Len(stack) - 1)

------------------------------------------------------------------------------
(* The generator. *)

Looked(d) == Append(Rest, [Top EXCEPT !.left = @ \ {d}])

\* Mutant of SeenConnection: what the other room says is not looked up.
SeenWall(r, d) == "WALL"

\* The connection in direction d, where the walk has been already.
SeenConnection(r, d) ==
    LET connect == room[get_neighbor(r, d)][get_opposite_dir(d)]
    IN  IF connect \in {"WALL", "OPEN"} THEN connect ELSE "WALL"

OuterWall(d) ==
    /\ ~check_bounds(Here, d)
    /\ room' = [room EXCEPT ![Here][d] = "WALL"]
    /\ stack' = Looked(d)
    /\ UNCHANGED visited

Stagger(d) ==
    LET n == get_neighbor(Here, d)
    IN  /\ check_bounds(Here, d) /\ n \notin visited
        /\ room' = [room EXCEPT ![Here][d] = "OPEN"]
        /\ stack' = Append(Looked(d), [room |-> n, left |-> Dirs])
        /\ visited' = visited \cup {n}

Seen(d) ==
    /\ check_bounds(Here, d) /\ get_neighbor(Here, d) \in visited
    /\ room' = [room EXCEPT ![Here][d] = SeenConnection(Here, d)]
    /\ stack' = Looked(d)
    /\ UNCHANGED visited

WalkBack == Top.left = {} /\ stack' = Rest /\ UNCHANGED <<room, visited>>

drunken_walk ==
    /\ phase = "walk" /\ stack # <<>>
    /\ \/ \E d \in Top.left : OuterWall(d) \/ Stagger(d) \/ Seen(d)
       \/ WalkBack
    /\ UNCHANGED <<phase, nextp, goal, file>>

check_connect(c) == IF c = "WALL" THEN 1 ELSE 0

encode_room(conn) == check_connect(conn["EAST"]) * 8 + check_connect(conn["WEST"]) * 4
                     + check_connect(conn["SOUTH"]) * 2 + check_connect(conn["NORTH"])

------------------------------------------------------------------------------
(* The solver. *)

hex_to_dir(d, hex) ==
    LET value == CASE d = "NORTH" -> 1 [] d = "SOUTH" -> 2 [] d = "WEST" -> 4 [] OTHER -> 8
    IN  (hex \div value) % 2 = 1

create_room_connections(hex) == [d \in Dirs |-> IF hex_to_dir(d, hex) THEN "WALL" ELSE "OPEN"]

\* Reads the digits of the generator, and begins the search.
Solve(from, to) ==
    /\ phase = "walk" /\ stack = <<>>
    /\ phase' = "dfs"
    /\ room' = [r \in Rooms |-> create_room_connections(encode_room(room[r]))]
    /\ goal' = to
    /\ stack' = <<[room |-> from, left |-> Order]>>
    /\ visited' = IF from = to THEN {} ELSE {from}
    /\ UNCHANGED <<nextp, file>>

\* The calls return true one by one, each noting the way it went.
Found ==
    /\ Here = goal
    /\ file' = Append(file, Here)
    /\ nextp' = [r \in Rooms |-> LET i == {j \in 1..(Len(stack) - 1) : stack[j].room = r}
                                 IN  IF i = {} THEN nextp[r]
                                     ELSE stack[(CHOOSE j \in i : TRUE) + 1].room]
    /\ phase' = "solved"
    /\ stack' = <<>>
    /\ UNCHANGED <<room, visited, goal>>

Onwards(d) == Append(Rest, [Top EXCEPT !.left = Tail(@)])

Try ==
    /\ Here # goal /\ Top.left # <<>>
    /\ LET d == Top.left[1]
           n == get_neighbor(Here, d)
       IN  IF room[Here][d] = "OPEN" /\ n \notin visited
           THEN /\ file' = Append(file, Here)
                /\ stack' = Append(Onwards(d), [room |-> n, left |-> Order])
                /\ visited' = IF n = goal THEN visited ELSE visited \cup {n}
           ELSE stack' = Onwards(d) /\ UNCHANGED <<file, visited>>
    /\ UNCHANGED <<phase, room, nextp, goal>>

DeadEnd ==
    /\ Here # goal /\ Top.left = <<>>
    /\ stack' = Rest
    /\ IF Rest = <<>> THEN phase' = "none" /\ file' = <<>>
       ELSE phase' = phase /\ file' = Append(file, Here)
    /\ UNCHANGED <<room, visited, nextp, goal>>

dfs == phase = "dfs" /\ (Found \/ Try \/ DeadEnd)

Next == drunken_walk \/ (\E from \in Rooms, to \in Rooms \cup {Nowhere} : Solve(from, to)) \/ dfs

Spec == Init /\ [][Next]_mazeVars

------------------------------------------------------------------------------

Open(r, s) == \E d \in Dirs : room[r][d] = "OPEN" /\ check_bounds(r, d) /\ get_neighbor(r, d) = s

\* traverse, from a room on: what the file holds when the solution is pruned.
Pruned[r \in Rooms] == IF nextp[r] = NULL THEN <<r>> ELSE <<r>> \o Pruned[nextp[r]]

Walk(s) == \A i \in 1..(Len(s) - 1) : Open(s[i], s[i + 1])

\* The two sides of a door agree and no door leads out of the maze, so that the solver, which
\* does not look at the bounds, stays inside; all rooms are connected without a circle.
MazeSound ==
    phase # "walk" =>
        /\ \A r \in Rooms, d \in Dirs :
             room[r][d] = "OPEN" => check_bounds(r, d) /\ Open(get_neighbor(r, d), r)
        /\ Cardinality({rd \in Rooms \X Dirs : room[rd[1]][rd[2]] = "OPEN"}) = 2 * (num_rows * num_cols - 1)

\* solver.c:208, "it should always find a path": every room is reached from every other; the
\* full record is a walk through the doors from start to goal, backtracking included, and the
\* pruned one takes it without seeing a room twice.  Only a goal that is no room is not found.
MazeSolved ==
    /\ phase = "none" => goal = Nowhere /\ visited = Rooms
    /\ phase = "solved" =>
          LET from == file[1]
          IN  /\ Walk(file) /\ file[Len(file)] = goal
              /\ Walk(Pruned[from]) /\ Pruned[from][Len(Pruned[from])] = goal
              /\ IsInjective(Pruned[from])
=================================================================================
