--------------------------- MODULE MCAuthSession ---------------------------
(* Values for the constants of AuthSession: Ann, an administrator of T,    *)
(* Bob, who belongs to no tenant yet, and a tenant without members.        *)
EXTENDS AuthSession, TLC

CONSTANTS Ann, Bob, T, Empty, Admin, Clerk, Other

MCRoleTenant == [r \in Role |-> IF r = Other THEN Empty ELSE T]
MCInitJoined == [u \in User |-> IF u = Ann THEN <<T>> ELSE <<>>]
MCInitAssigned == {<<Ann, T, Admin>>}

Symmetry == Permutations(Req)
=============================================================================
