----------------------------- MODULE AccessDecision -----------------------------
(***************************************************************************)
(* Who may do what with a document (documents/permissions and selectors,    *)
(* access/services, the members of projects): a request finds the document  *)
(* in what its user sees, locks it, asks for the right and writes, while    *)
(* rights are granted, changed, revoked, run out, and members come and go.  *)
(* Temporary users have no rights and are left out.                         *)
(***************************************************************************)
EXTENDS Naturals, FiniteSets

CONSTANTS
  Users, Admins, Operators,  \* is_system_admin, role DATA_OPERATOR
  Callers,        \* bound: requests at a time
  GrantIds,       \* bound: rows of document grants
  RightSets,      \* bound: the rights a grant may give
  MemberSets,     \* bound: the rights a member may have
  Situations,     \* bound: documents to ask about
  LoneMemberEdit, \* assumption: one edit of members at a time
  Nobody

Rights == {"view", "download", "update", "delete", "restore", "manage"}
MemberRights == {"upload", "restricted", "delete", "restore", "permissions"}

\* project and restricted as in the document; staff: it is in a folder of the staff,
\* which own it under their real names.
Situation == [project : BOOLEAN, restricted : BOOLEAN, staff : BOOLEAN, owner : Users \cup {Nobody}]

ASSUME AccessAssumption ==
  /\ Nobody \notin Users /\ Admins \subseteq Users /\ Operators \subseteq Users
  /\ RightSets \subseteq SUBSET Rights \ {{}} /\ MemberSets \subseteq SUBSET MemberRights
  /\ Situations \subseteq Situation /\ LoneMemberEdit \in BOOLEAN

VARIABLES
  paper,     \* the document
  member,    \* the rights of a user's membership in its project, or none
  grant,     \* rows of document grants
  caller,    \* requests
  revokedOnce, removed  \* history: grants ever revoked, members removed since added

accessVars == <<paper, member, grant, caller, revokedOnce, removed>>

NoMember == {"none"}
NoGrant == [user |-> Nobody, rights |-> {}, state |-> "none"]
Quiet == [step |-> "idle", op |-> "none", user |-> Nobody, target |-> Nobody, by |-> {}]

-------------------------------------------------------------------------------
(* Permissions and selectors *)

IsLive(g) == grant[g].state = "live"
GrantsTo(u, right) == {g \in GrantIds : grant[g].user = u /\ IsLive(g) /\ right \in grant[g].rights}
IsMember(u) == paper.project /\ member[u] # NoMember
MemberMay(u, right) == IsMember(u) /\ right \in member[u]
Hidden(u) == paper.staff /\ paper.owner # u

\* base_documents_for_user
InBase(u) ==
  \/ u \in Admins \cup Operators
  \/ paper.project => IsMember(u)
  \/ \E right \in Rights \ {"manage"} : GrantsTo(u, right) # {}

\* visible_documents_for_user
Visible(u) ==
  \/ u \in Admins
  \/ /\ ~Hidden(u)
     /\ \/ u \in Operators
        \/ ~paper.restricted /\ (paper.project => IsMember(u))
        \/ paper.restricted /\ MemberMay(u, "restricted")
        \/ GrantsTo(u, "view") # {}

MayUpdate(u) == u \in Admins \/ GrantsTo(u, "update") # {} \/ MemberMay(u, "upload")
MayDelete(u) == u \in Admins \/ GrantsTo(u, "delete") # {} \/ MemberMay(u, "delete")
MayRestore(u) == u \in Admins \/ GrantsTo(u, "restore") # {} \/ MemberMay(u, "restore")
MayManage(u) == u \in Admins \/ GrantsTo(u, "manage") # {} \/ MemberMay(u, "permissions")

MayDownload(u) ==
  \/ u \in Admins
  \/ IF paper.staff THEN paper.owner = u
     ELSE \/ u \in Operators
          \/ GrantsTo(u, "download") # {}
          \/ paper.restricted /\ MemberMay(u, "restricted")

May(u, op) ==
  CASE op = "update"  -> MayUpdate(u)
    [] op = "delete"  -> MayDelete(u)
    [] op = "restore" -> MayRestore(u)
    [] OTHER          -> MayManage(u)

RightFor(op) == IF op \in {"update", "delete", "restore"} THEN op ELSE "manage"
ByMembership(u, op) ==
  MemberMay(u, CASE op = "update" -> "upload" [] op = "delete" -> "delete"
                 [] op = "restore" -> "restore" [] OTHER -> "permissions")

\* The queryset a view looks into: get_object for updates and deletions, the base for
\* restorations, grants_manageable_by_user for grants; a new grant names any document.
Finds(u, op) ==
  CASE op \in {"update", "delete"} -> Visible(u)
    [] op = "restore"              -> InBase(u)
    [] op = "grant"                -> TRUE
    [] OTHER                       -> MayManage(u)

-------------------------------------------------------------------------------
(* Requests *)

AccessInit ==
  /\ paper \in Situations
  /\ member = [u \in Users |-> NoMember]
  /\ grant = [g \in GrantIds |-> NoGrant]
  /\ caller = [c \in Callers |-> Quiet]
  /\ revokedOnce = {} /\ removed = {}

DocumentOps == {"update", "delete", "restore", "grant", "change", "revoke"}

\* The view: what it finds, outside of the transaction of the service
Call(c) ==
  /\ caller[c].step = "idle"
  /\ \E u \in Users, op \in DocumentOps,
        t \in {Nobody} \cup {g \in GrantIds : grant[g] # NoGrant} :
       /\ Finds(u, op) /\ (t # Nobody <=> op \in {"change", "revoke"})
       /\ caller' = [caller EXCEPT ![c] = [step |-> "lock", op |-> op, user |-> u, target |-> t, by |-> {}]]
  /\ UNCHANGED <<paper, member, grant, revokedOnce, removed>>

\* Not the code: the right is asked for before the document is locked.
LockPermitted(c) ==
  /\ caller[c].step = "lock" /\ May(caller[c].user, caller[c].op)
  /\ caller' = [caller EXCEPT ![c].step = "allowed",
                              ![c].by = GrantsTo(caller[c].user, RightFor(caller[c].op))]
  /\ UNCHANGED <<paper, member, grant, revokedOnce, removed>>

\* SELECT ... FOR UPDATE of the document (_locked_document, create_document_grant), which
\* a change of its grants needs too, and then the right of the user as it is now
LockDocument(c) ==
  /\ caller[c].step = "lock"
  /\ \A d \in Callers : caller[d].step # "allowed"
  /\ May(caller[c].user, caller[c].op)
  /\ caller' = [caller EXCEPT ![c].step = "allowed",
                              ![c].by = GrantsTo(caller[c].user, RightFor(caller[c].op))]
  /\ UNCHANGED <<paper, member, grant, revokedOnce, removed>>

\* A right is missing, a check refuses, or the transaction is rolled back.
Refused(c) ==
  /\ caller[c].step \in {"lock", "allowed"}
  /\ caller' = [caller EXCEPT ![c] = Quiet]
  /\ UNCHANGED <<paper, member, grant, revokedOnce, removed>>

\* What an allowed request writes into the document is in DocumentStore.
WriteDocument(c) ==
  /\ caller[c].step = "allowed" /\ caller[c].op \in {"update", "delete", "restore"}
  /\ caller' = [caller EXCEPT ![c] = Quiet]
  /\ UNCHANGED <<paper, member, grant, revokedOnce, removed>>

Commits(c, op) ==
  /\ caller[c].step = "allowed" /\ caller[c].op = op
  /\ caller' = [caller EXCEPT ![c] = Quiet]
  /\ UNCHANGED <<paper, member, removed>>

\* create_document_grant: a grant that has run out is revoked, a live one refuses.
GrantRights(c) ==
  /\ Commits(c, "grant")
  /\ \E u \in Users, rights \in RightSets, g \in {g \in GrantIds : grant[g] = NoGrant} :
       LET old == {h \in GrantIds : grant[h].user = u /\ grant[h].state \in {"live", "expired"}} IN
       /\ \A h \in old : ~IsLive(h)
       /\ grant' = [h \in GrantIds |->
            IF h = g THEN [user |-> u, rights |-> rights, state |-> "live"]
            ELSE IF h \in old THEN [grant[h] EXCEPT !.state = "revoked"] ELSE grant[h]]
       /\ revokedOnce' = revokedOnce \cup old

\* update_document_grant; a new expires_at makes an expired grant live again.
ChangeGrant(c) ==
  LET g == caller[c].target IN
  /\ Commits(c, "change") /\ grant[g].state # "revoked"
  /\ \E rights \in RightSets, state \in {"live", grant[g].state} :
       grant' = [grant EXCEPT ![g].rights = rights, ![g].state = state]
  /\ UNCHANGED revokedOnce

RevokeGrant(c) ==
  LET g == caller[c].target IN
  /\ Commits(c, "revoke") /\ grant[g].state # "revoked"
  /\ grant' = [grant EXCEPT ![g].state = "revoked"]
  /\ revokedOnce' = revokedOnce \cup {g}

\* expires_at passes.
RunOut(g) ==
  /\ IsLive(g)
  /\ grant' = [grant EXCEPT ![g].state = "expired"]
  /\ UNCHANGED <<paper, member, caller, revokedOnce, removed>>

-------------------------------------------------------------------------------
(* Members of the project, edited by administrators *)

AddMember(u) ==
  /\ member[u] = NoMember /\ paper.project
  /\ \E rights \in MemberSets : member' = [member EXCEPT ![u] = rights]
  /\ removed' = removed \ {u}
  /\ UNCHANGED <<paper, grant, caller, revokedOnce>>

Editing(d, u) == caller[d].step = "member" /\ caller[d].target = u

\* The view loads the membership.
LoadMember(c, u) ==
  /\ caller[c].step = "idle" /\ member[u] # NoMember
  /\ LoneMemberEdit => \A d \in Callers : caller[d].step # "member"
  /\ caller' = [caller EXCEPT ![c] = [Quiet EXCEPT !.step = "member", !.target = u]]
  /\ UNCHANGED <<paper, member, grant, revokedOnce, removed>>

\* update_project_member: save() without a lock, which inserts a row that is gone.
SaveMember(c, u) ==
  /\ Editing(c, u)
  /\ \E rights \in MemberSets : member' = [member EXCEPT ![u] = rights]
  /\ caller' = [caller EXCEPT ![c] = Quiet]
  /\ UNCHANGED <<paper, grant, revokedOnce, removed>>

RemoveMember(c, u) ==
  /\ Editing(c, u)
  /\ member' = [member EXCEPT ![u] = NoMember]
  /\ removed' = removed \cup {u}
  /\ caller' = [caller EXCEPT ![c] = Quiet]
  /\ UNCHANGED <<paper, grant, revokedOnce>>

AccessNext ==
  \/ \E c \in Callers :
       \/ Call(c) \/ LockDocument(c) \/ Refused(c)
       \/ WriteDocument(c) \/ GrantRights(c) \/ ChangeGrant(c) \/ RevokeGrant(c)
       \/ \E u \in Users : LoadMember(c, u) \/ SaveMember(c, u) \/ RemoveMember(c, u)
  \/ \E g \in GrantIds : RunOut(g)
  \/ \E u \in Users : AddMember(u)

AccessSpec == AccessInit /\ [][AccessNext]_accessVars

-------------------------------------------------------------------------------
(* Properties *)

\* "该用户已有未撤销授权": a user has at most one grant of the document that is not
\* revoked, however many grants are given at the same time.
GrantsAreExclusive ==
  \A g, h \in GrantIds :
    g # h /\ grant[g] # NoGrant /\ grant[h] # NoGrant /\ grant[g].user = grant[h].user
      => "revoked" \in {grant[g].state, grant[h].state}

\* "授权已撤销，不能修改": no change that was on its way brings a revoked grant back.
RevokedStaysRevoked == \A g \in revokedOnce : grant[g].state = "revoked"

\* What a request does because of a grant, it does before the grant is revoked: the
\* revocation waits for the document, and the right is asked for behind its lock.
ActsOnStandingGrants ==
  \A c \in Callers :
    /\ caller[c].step = "allowed" /\ caller[c].by # {}
    /\ caller[c].user \notin Admins /\ ~ByMembership(caller[c].user, caller[c].op)
    => \E g \in caller[c].by : grant[g].state # "revoked"

\* What one may download one can find, and what one is shown is in the base: the two
\* querysets and the decision agree.  One who is no member any more has no right of one.
DecisionsAgree ==
  /\ \A u \in Users : (Visible(u) \/ MayDownload(u)) => InBase(u)
  /\ \A u \in removed : ~IsMember(u)

AccessIsConsistent ==
  /\ GrantsAreExclusive /\ RevokedStaysRevoked /\ ActsOnStandingGrants /\ DecisionsAgree
===============================================================================
