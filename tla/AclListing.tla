------------------------------ MODULE AclListing ------------------------------
(***************************************************************************)
(* describe_acls: a filter on resource type, name and principal, in which  *)
(* None stands for any, handed to the broker and answered while ACLs are   *)
(* granted and revoked.  On IAM clusters an empty answer is explained.     *)
(***************************************************************************)
EXTENDS Naturals, FiniteSets

CONSTANTS
  Bindings,   \* the ACLs there may be: [restype, name, pattern, principal]
  AclFilters  \* what may be asked: [resource_type, resource_name, principal], "ANY" for None

ResourceTypes == {"TOPIC", "GROUP"}

\* What a caller may write for a resource type, and str.upper() of it.
Capitals == [TOPIC |-> "TOPIC", topic |-> "TOPIC", GROUP |-> "GROUP", TOPICS |-> "TOPICS", ANY |-> "ANY"]

ASSUME AclsAssumption ==
  /\ \A f \in AclFilters : f.resource_type \in DOMAIN Capitals
  /\ \A b \in Bindings : b.restype \in ResourceTypes

VARIABLES
  acls,      \* the ACLs of the cluster
  is_iam,
  asked_for,
  aclReply   \* [acls, summary]

aclVars == <<acls, is_iam, asked_for, aclReply>>

NoAclReply == [acls |-> {}, summary |-> "not yet"]

AclsInit ==
  /\ acls = {} /\ is_iam \in BOOLEAN /\ asked_for \in AclFilters
  /\ aclReply = NoAclReply

Grant(b)  == b \notin acls /\ acls' = acls \cup {b} /\ aclReply' = NoAclReply /\ UNCHANGED <<is_iam, asked_for>>
Revoke(b) == b \in acls /\ acls' = acls \ {b} /\ aclReply' = NoAclReply /\ UNCHANGED <<is_iam, asked_for>>

----------------------------------------------------------------------------
\* _resolve_resource_type: a name that is none stands for any.
ResolveType(resource_type) ==
  IF Capitals[resource_type] \in ResourceTypes THEN Capitals[resource_type] ELSE "ANY"

\* Mutant: ACLs on the beginning of a name are not asked for.
AcceptsLiteral(b) ==
  /\ ResolveType(asked_for.resource_type) \in {"ANY", b.restype}
  /\ asked_for.resource_name \in {"ANY", b.name} /\ b.pattern = "LITERAL"
  /\ asked_for.principal \in {"ANY", b.principal}

\* AclBindingFilter: any pattern type, host, operation and permission.
Accepts(b) ==
  /\ ResolveType(asked_for.resource_type) \in {"ANY", b.restype}
  /\ asked_for.resource_name \in {"ANY", b.name}
  /\ asked_for.principal \in {"ANY", b.principal}

AclSummary(found) ==
  IF found # {} THEN "counted" ELSE IF is_iam THEN "no ACLs, IAM" ELSE "no match"

DescribeAcls ==
  /\ LET found == {b \in acls : Accepts(b)}
     IN  aclReply' = [acls |-> found, summary |-> AclSummary(found)]
  /\ UNCHANGED <<acls, is_iam, asked_for>>

AclsNext == DescribeAcls \/ \E b \in Bindings : Grant(b) \/ Revoke(b)

AclsSpec == AclsInit /\ [][AclsNext]_aclVars

----------------------------------------------------------------------------
(* Properties.                                                             *)

Says(b) ==
  /\ Capitals[asked_for.resource_type] \in {"ANY", b.restype}
  /\ asked_for.resource_name \in {"ANY", b.name} /\ asked_for.principal \in {"ANY", b.principal}

\* An ACL the caller asked for is in the answer, of either pattern type and however
\* the resource type is spelled, so that no grant looks missing that is there; and on
\* an IAM cluster with ACLs of its own it is not explained away (describe_acls.py:113).
AskedAclsFound ==
  aclReply # NoAclReply => \A b \in acls :
    Says(b) => b \in aclReply.acls /\ aclReply.summary = "counted"
=============================================================================
