----------------------------- MODULE MCFolderTree -----------------------------
(***************************************************************************)
(* Instances of FolderTree for TLC.  A behaviour is of one of five kinds,   *)
(* each with its operations and its room next to the root:                  *)
(*   structure  every operation but renaming, two folders and the year's    *)
(*   names      creations and renamings against archiving, three folders    *)
(*   codes      users give and take the code of the container               *)
(*   public     two public folders, without projects                        *)
(*   projects   archiving and unarchiving of two projects                   *)
(***************************************************************************)
EXTENDS FolderTree, TLC

CONSTANTS
  p1, n2,     \* the project of the other kinds, and the name that creations give
  YearRows    \* the rows that folders of the year get, out of the symmetry

VARIABLE about

Kinds == {"structure", "names", "codes", "public", "projects"}

OnPublic(r) ==
  \/ r.op \in {"create", "move"} /\ r.parent # Nothing /\ folder[r.parent].project = Nothing
  \/ r.op \in {"update", "move", "disable"} /\ folder[r.folder].project = Nothing

Creates(r) == r.op = "create" => r.name = n2 /\ r.code = "other" /\ r.parent \in OrNothing(Active)
Renames(r) == r.op = "update" => r.name # Nothing /\ r.code = "none"
Recodes(r) == r.op = "update" => r.name = Nothing /\ r.code # "none"

OpsOf ==
  [structure |-> Ops \ {"update"},
   names     |-> {"create", "update", "archive", "unarchive"},
   codes     |-> {"create", "update", "archive", "unarchive"},
   public    |-> {"create", "update", "move", "disable"},
   projects  |-> {"archive", "unarchive"}]

Room == [structure |-> 2, names |-> 3, codes |-> 2, public |-> 2, projects |-> 4]

Fits(r) ==
  /\ r.op \in OpsOf[about]
  /\ OnPublic(r) <=> about = "public"
  /\ CASE about = "codes"  -> (r.op = "create" => r.name = n2) /\ Recodes(r)
       [] about = "public" -> r.code \in {"other", "none"} /\ Renames(r)
       [] OTHER            -> Creates(r) /\ Renames(r)

ProjectsOf == [structure |-> {p1}, names |-> {p1}, codes |-> {p1}, public |-> {}, projects |-> Projects]

Begins(c) == request[c].step = "idle" /\ request'[c].step # "idle"
Born == {f \in Folders : folder[f].kind = "absent" /\ folder'[f].kind # "absent"}

TreeInit == Init /\ about \in Kinds
TreeNext ==
  /\ Next
  /\ \A c \in Requests : Begins(c) => Fits(request'[c])
  /\ \A f \in Born : folder'[f].kind = "year" <=> f \in YearRows
  /\ Cardinality({f \in Folders \ (Roots \cup YearRows) : folder'[f].kind # "absent"}) <= Room[about]
  /\ \A p \in Projects \ ProjectsOf[about] : status'[p] = "absent"
  /\ UNCHANGED about
TreeSpec == TreeInit /\ [][TreeNext]_<<vars, about>>

TreeSymmetry == Permutations(Requests) \cup Permutations(Folders \ (Roots \cup YearRows))
===============================================================================
