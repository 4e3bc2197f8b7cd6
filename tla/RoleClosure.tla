---------------------------- MODULE RoleClosure ----------------------------
(***************************************************************************)
(* effective_permission_keys (services/authz/engine.py): the breadth-first *)
(* walk that turns the roles of a subject into the set of permissions they *)
(* grant, inherited ones included.                                         *)
(*                                                                         *)
(* An edge <<parent, child>> means that the parent inherits the child's    *)
(* permissions.  The PAP accepts any edge but a self-loop, so the graph    *)
(* may have cycles; the walk has to end on those too.  Role ids are        *)
(* visited in the order a Python set yields them, which is unspecified.    *)
(***************************************************************************)

CONSTANTS
  Role,   \* the roles of one tenant (the session is scoped by RLS)
  Perm    \* the permission catalog

VARIABLES
  edges,     \* role_hierarchy of the tenant: <<parent, child>> rows
  grants,    \* role_permissions of the tenant: <<role, permission>> rows
  names,     \* the roles the subject presents
  closure,   \* roles found so far
  frontier,  \* roles of the current level not visited yet
  nxt,       \* roles found for the next level
  returned,  \* whether the walk has ended
  keys       \* the permissions it returned

vars == <<edges, grants, names, closure, frontier, nxt, returned, keys>>
inputs == <<edges, grants, names>>

Children(r) == {c \in Role : <<r, c>> \in edges}

Granted(roles) == {p \in Perm : \E r \in roles : <<r, p>> \in grants}

----------------------------------------------------------------------------
(* The walk. *)

(* Any tables and any roles.  A subject without roles, or none of whose    *)
(* roles exist, gives an empty closure: the walk ends at once with the     *)
(* empty set, as the two early returns do.                                 *)
Init ==
  /\ edges \in SUBSET {e \in Role \X Role : e[1] # e[2]}
  /\ grants \in SUBSET (Role \X Perm)
  /\ names \in SUBSET Role
  /\ closure = names
  /\ frontier = names
  /\ nxt = {}
  /\ returned = FALSE
  /\ keys = {}

(* Mutant of Visit: children queued without the test against the closure. *)
VisitRequeues(r) ==
  /\ r \in frontier
  /\ closure' = closure \cup Children(r)
  /\ nxt' = nxt \cup Children(r)
  /\ frontier' = frontier \ {r}
  /\ UNCHANGED <<inputs, returned, keys>>

(* Mutant of Visit: a child found is not walked any further. *)
VisitOneLevel(r) ==
  /\ r \in frontier
  /\ closure' = closure \cup Children(r)
  /\ frontier' = frontier \ {r}
  /\ UNCHANGED <<inputs, nxt, returned, keys>>

(* The two nested for loops: the children of one role of the level.  A     *)
(* child already in the closure is not queued again.                       *)
Visit(r) ==
  /\ r \in frontier
  /\ LET new == Children(r) \ closure
     IN  /\ closure' = closure \cup new
         /\ nxt' = nxt \cup new
  /\ frontier' = frontier \ {r}
  /\ UNCHANGED <<inputs, returned, keys>>

(* Mutant of NextLevel: nxt is not a fresh set on the next iteration. *)
NextLevelKeeps ==
  /\ frontier = {}
  /\ nxt # {}
  /\ frontier' = nxt
  /\ UNCHANGED <<inputs, closure, nxt, returned, keys>>

(* frontier = nxt at the end of the body of the while loop. *)
NextLevel ==
  /\ frontier = {}
  /\ nxt # {}
  /\ frontier' = nxt
  /\ nxt' = {}
  /\ UNCHANGED <<inputs, closure, returned, keys>>

(* Mutant of Return: rows of role_permissions returned, not their keys. *)
ReturnRows ==
  /\ frontier = {}
  /\ nxt = {}
  /\ ~returned
  /\ returned' = TRUE
  /\ keys' = {g \in grants : g[1] \in closure}
  /\ UNCHANGED <<inputs, closure, frontier, nxt>>

(* The loop has ended: read the permissions of the closure and return. *)
Return ==
  /\ frontier = {}
  /\ nxt = {}
  /\ ~returned
  /\ returned' = TRUE
  /\ keys' = Granted(closure)
  /\ UNCHANGED <<inputs, closure, frontier, nxt>>

Next == (\E r \in Role : Visit(r)) \/ NextLevel \/ Return

Spec == Init /\ [][Next]_vars

(* The request thread runs the loop to its end. *)
FairSpec == Spec /\ WF_vars(Next)

----------------------------------------------------------------------------
(* What the walk has to compute: the permissions of the least set of roles *)
(* that contains the subject's and is closed under inheritance.            *)

Inherits(S) == \A r \in S : Children(r) \subseteq S

Reachable ==
  {r \in Role : \A S \in SUBSET Role : names \subseteq S /\ Inherits(S) => r \in S}

TypeOK ==
  /\ edges \in SUBSET (Role \X Role)
  /\ grants \in SUBSET (Role \X Perm)
  /\ names \in SUBSET Role
  /\ closure \in SUBSET Role
  /\ frontier \in SUBSET Role
  /\ nxt \in SUBSET Role
  /\ returned \in BOOLEAN
  /\ keys \in SUBSET Perm

(* The walk returns exactly the permissions of the reachable roles, in     *)
(* whatever order the sets are iterated and whether or not the hierarchy   *)
(* has cycles (engine.py:96, "we walk the closure downward").              *)
ReturnsReachable ==
  returned => keys = Granted(Reachable)

(* A role that has left the queue never comes back: the test against the   *)
(* closure is what stops a cycle of the hierarchy from being walked again. *)
VisitedOnce ==
  [][ (closure \ (frontier \cup nxt)) \subseteq (closure \ (frontier \cup nxt))' ]_vars

(* The walk ends on every hierarchy, cyclic ones included. *)
Terminates == <>returned
=============================================================================
