-------------------------- MODULE DiagnosticsBoard --------------------------
(***************************************************************************)
(* What the language server promises an editor, without loops, queues or   *)
(* messages: for each open folder a board shows, file by file, a version   *)
(* the file really had; a refresh never goes back to an older one; closing *)
(* a folder wipes its board.                                               *)
(***************************************************************************)
EXTENDS Integers

CONSTANTS Root, File, FilesOf, MaxVersion

VARIABLES
  disk,   \* File -> its version on disk
  open,   \* the folders being shown
  board   \* Root -> File -> the version shown, -1 for none

Blank == [f \in File |-> -1]

Init ==
  /\ disk \in [File -> 0..MaxVersion]
  /\ open \subseteq Root
  /\ board = [r \in Root |-> Blank]

Write(f) ==
  /\ disk[f] < MaxVersion
  /\ disk' = [disk EXCEPT ![f] = @ + 1]
  /\ UNCHANGED <<open, board>>

\* Folders are opened and closed; a closed one is wiped in the same step.
Folders ==
  /\ open' \subseteq Root
  /\ board' = [r \in Root |-> IF r \in open /\ r \notin open' THEN Blank ELSE board[r]]
  /\ UNCHANGED disk

\* An open folder gets a result in which no file is older than shown, or unread.
Refresh(r) ==
  /\ r \in open
  /\ board' = [board EXCEPT ![r] = board'[r]]
  /\ board'[r] \in [File -> -1..MaxVersion]
  /\ \A f \in FilesOf[r] : 0 <= board'[r][f] /\ board'[r][f] <= disk[f]
  /\ \A f \in File : board[r][f] <= board'[r][f]
  /\ UNCHANGED <<disk, open>>

Next ==
  \/ \E f \in File : Write(f)
  \/ Folders
  \/ \E r \in Root : Refresh(r)

Spec == Init /\ [][Next]_<<disk, open, board>>
=============================================================================
