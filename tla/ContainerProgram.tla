--------------------------- MODULE ContainerProgram ---------------------------
(* One program that uses Container: four entries, two of which have the same *)
(* key; one of them is removed again, and after clear() come fifteen.  Every *)
(* step is one of Container; the program only decides which call comes next. *)
EXTENDS Container

VARIABLE done   \* the number of calls the program has made

Shrinking == <<15, 14, 13, 13>>
Growing == <<15, 14, 13, 11, 10, 9, 8, 5, 4, 3, 2, 1, 7, 6, 12>>
CallsInAll == Len(Shrinking) + 2 + Len(Growing)

ProgramInit == Init /\ done = 0

AddFew == done < Len(Shrinking) /\ Add(Shrinking[done + 1])
RemoveOne == done = Len(Shrinking) /\ RemoveKey(Shrinking[1])
ClearIt == done = Len(Shrinking) + 1 /\ Clear
AddAll == done \in Len(Shrinking) + 2 .. CallsInAll - 1 /\ Add(Growing[done - Len(Shrinking) - 1])

ProgramNext ==
    \/ (AddFew \/ RemoveOne \/ ClearIt \/ AddAll) /\ done' = done + 1
    \/ Steps /\ UNCHANGED done
==============================================================================
