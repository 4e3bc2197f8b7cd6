---------------------------- MODULE MCProvisioning ----------------------------
(***************************************************************************)
(* A seeding, and any two of the jobs beside it and after it: further      *)
(* seedings and the endpoints, the same one twice included.  Where a       *)
(* policy is deleted, two more seedings may miss it.                       *)
(***************************************************************************)
EXTENDS Provisioning

CONSTANTS first, second, third, fourth, Guest, Other

MCTenant == {Acme, Globex}
MCTxn == {first, second, third, fourth}
MCUser == {Person, Admin, Guest}
MCCondition == {Limit, Other}

All ==
  <<Seeding, CreateTenant(Acme, Acme), CreateUser(Acme, Guest), CreateOrgUnit(Acme),
    AddMember(Acme, Admin), AssignRole(Acme, Admin), CreatePermission(Acme),
    CreatePolicy(Acme),
    UpdatePolicy(Acme, Acme, [condition |-> Other]),
    UpdatePolicy(Acme, Acme, [effect |-> "deny", enabled |-> FALSE]),
    UpdatePolicy(Acme, Globex, [condition |-> Other]),
    DeletePolicy(Acme, Acme), DeletePolicy(Acme, Globex)>>

(* Globex has no administrator here, so this never begins. *)
Nothing == CreateOrgUnit(Globex)

Beside(two, three, four) ==
  [x \in MCTxn |-> CASE x = first -> Seeding [] x = second -> two
                    [] x = third -> three [] x = fourth -> four]

MCJobs ==
  {Beside(All[p[1]], All[p[2]], Nothing) :
     p \in {q \in (DOMAIN All) \X (DOMAIN All) : q[1] <= q[2]}}
    \cup {Beside(DeletePolicy(Acme, Acme), Seeding, Seeding)}
=============================================================================
