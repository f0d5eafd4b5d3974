------------------------------ MODULE ShownCells ------------------------------
(***************************************************************************)
(* What a wrapper over shared cells knows of them and what its observers   *)
(* have read, and when the second must not lag behind the first.           *)
(* SharedArray says how writes, scans and observers move both.             *)
(***************************************************************************)

CONSTANT Threads  \* each with one wrapper

VARIABLES
  value,    \* shared: the value of each cell
  ver,      \* shared: its version
  gen,      \* shared: the generation
  cells,    \* per wrapper: the cells materialised for an observer
  cursor,   \* per wrapper and cell: the cell's #observedSharedVersion
  epoch,    \* per wrapper: #observedGeneration
  shown,    \* per wrapper and cell: the value its observer last read
  at        \* per thread: what it does next

\* The observer of a cell has read its present value.
Shows(a, c) == shown[a][c] = value[c]

\* A write is in the cell and its generation is not yet counted.
Unannounced == {a \in Threads : at[a] = "announce"}

-----------------------------------------------------------------------------
\* A wrapper that would answer "nothing new" for a cell (isStale() is false)
\* has run that cell's observer on the present value: a notification is never
\* missed by moving a cursor (#observedSharedVersion, recordObservedVersion).
FreshMeansShown ==
  \A a \in Threads : \A c \in cells[a] :
     at[a] = "idle" /\ cursor[a][c] = ver[c] => Shows(a, c)

\* The shortcut of sync() is right: when the generation has not moved since
\* this wrapper's last scan and no writer is between its two stores, all its
\* observers show the present values, whatever it wrote or read itself since.
ScannedMeansShown ==
  \A a \in Threads : \A c \in cells[a] :
     at[a] = "idle" /\ epoch[a] = gen /\ Unannounced = {} => Shows(a, c)
===============================================================================
