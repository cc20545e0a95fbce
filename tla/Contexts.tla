------------------------------- MODULE Contexts -------------------------------
(***************************************************************************)
(* Contexts (context.go) as Go lays them out: the attributes are a slice,  *)
(* a copy of a Context shares its array, and AddAttribute writes into the  *)
(* array if there is room behind the slice.  An array is a sequence as     *)
(* long as its capacity, arrays the sequence of those allocated so far.    *)
(***************************************************************************)
EXTENDS Naturals, Sequences

Blank == "blank"                           \* a cell no slice has reached yet

Context(k, n) == [array |-> k, len |-> n]
Attributes(arrays, c) == SubSeq(arrays[c.array], 1, c.len)

Allocated_Spare(attrs) == Append(attrs, Blank)     \* mutant: room for one more
Allocated(attrs)       == attrs

\* NewContext allocates an array with exactly the attributes it is given.
NewContext(arrays, attrs) == Append(arrays, Allocated(attrs))

\* Go's append doubles a full array that is this small.
Grown(cells) == cells \o [k \in 1..(IF cells = << >> THEN 1 ELSE Len(cells)) |-> Blank]

HasRoom(arrays, c) == c.len < Len(arrays[c.array])

\* AddAttribute: the arrays, and the context, it leaves.
ArraysWith(arrays, c, a) ==
  IF HasRoom(arrays, c) THEN [arrays EXCEPT ![c.array][c.len + 1] = a]
  ELSE Append(arrays, [Grown(arrays[c.array]) EXCEPT ![c.len + 1] = a])
ContextWith(arrays, c) ==
  Context(IF HasRoom(arrays, c) THEN c.array ELSE Len(arrays) + 1, c.len + 1)
=============================================================================
