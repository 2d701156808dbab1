---------------------------------- MODULE Life ----------------------------------
(***************************************************************************)
(* The game of life of systems/cs033/lab01/life.c: two boards that take    *)
(* turns as the old and the new generation, filled cell by cell.           *)
(***************************************************************************)
EXTENDS Integers, FiniteSets

CONSTANTS rows, cols, steps

VARIABLES board,       \* the two arrays
          arr1,        \* which of them holds the generation
          i,           \* the cell that update is at
          step,
          live         \* the cells that are alive by the rules of the game

lifeVars == <<board, arr1, i, step, live>>

get_index(row, col)   == row * cols + col
Cells                 == 0..(rows * cols - 1)
Row(c) == c \div cols
Col(c) == c % cols

\* Mutant of is_in_range: only the place in the array is looked at.
InArray(row, col) == get_index(row, col) \in Cells

is_in_range(row, col) == row >= 0 /\ row < rows /\ col >= 0 /\ col < cols

is_alive(arr, row, col) == is_in_range(row, col) /\ arr[get_index(row, col)] = 1

count_alive_neighbors(arr, row, col) ==
    Cardinality({p \in ((row - 1)..(row + 1)) \X ((col - 1)..(col + 1)) :
                   p # <<row, col>> /\ is_alive(arr, p[1], p[2])})

get_next_state(arr, row, col) ==
    LET neighbors == count_alive_neighbors(arr, row, col)
    IN  IF neighbors = 3 \/ (is_alive(arr, row, col) /\ neighbors = 2) THEN 1 ELSE 0

Init ==
    /\ \E first \in [Cells -> {0, 1}] :
          /\ board = <<first, [c \in Cells |-> 0]>>
          /\ live = {c \in Cells : first[c] = 1}
    /\ arr1 = 1 /\ i = 0 /\ step = 0

update ==
    /\ step < steps /\ i \in Cells
    /\ board' = [board EXCEPT ![3 - arr1][i] = get_next_state(board[arr1], Row(i), Col(i))]
    /\ i' = i + 1
    /\ UNCHANGED <<arr1, step, live>>

\* The game's rule, on the cells at a distance of one.
Near(c)   == {d \in Cells \ {c} : /\ Row(d) - Row(c) \in {-1, 0, 1}
                                  /\ Col(d) - Col(c) \in {-1, 0, 1}}
Reborn(L) == {c \in Cells : LET k == Cardinality(Near(c) \cap L) IN k = 3 \/ (c \in L /\ k = 2)}

do_life ==
    /\ step < steps /\ i \notin Cells
    /\ arr1' = 3 - arr1
    /\ i' = 0 /\ step' = step + 1
    /\ live' = Reborn(live)
    /\ UNCHANGED board

Next == update \/ do_life

Spec == Init /\ [][Next]_lifeVars

\* The generation that is printed is always that of the game, at the edges too, and stays
\* whole while the next one is computed beside it.
GenerationRight == {c \in Cells : board[arr1][c] = 1} = live
=================================================================================
