---------------------------- MODULE UpdateRouting ----------------------------
(***************************************************************************)
(* How an update of a cluster resource is turned into NC2 operations:      *)
(* computeDiff and buildUpdateBodies of the cloud's package, RouteUpdate   *)
(* and MapDesiredStateTransition of clustershared.                         *)
(*                                                                         *)
(* A resource's attributes are a function; its domain is the schema of the *)
(* cloud, so access_policy and desired_state are simply absent where the   *)
(* cloud has no such attribute.  Attributes that always travel together    *)
(* are one: "license" stands for license, aos_version and software_tier.   *)
(***************************************************************************)

EXTENDS Naturals

CONSTANTS
  Null,          \* an attribute that is not set, or a field not in a body
  Unknown        \* a planned value that is only known after the apply

FieldOps == {"update_license", "update_ssh_key", "update_capacity",
             "update_resource_tags", "update_access_policy", "generic_patch"}

Ops == FieldOps \cup {"hibernate", "resume"}

\* The order in which ApplyUpdates issues the operations of one update.
Rank ==
  [update_license |-> 1, update_ssh_key |-> 2, update_capacity |-> 3,
   update_resource_tags |-> 4, update_access_policy |-> 5, generic_patch |-> 6,
   hibernate |-> 7, resume |-> 7]

AttributeOf ==
  [update_license |-> "license", update_ssh_key |-> "ssh_key",
   update_capacity |-> "capacity", update_resource_tags |-> "resource_tags",
   update_access_policy |-> "access_policy", generic_patch |-> "use_case"]

\* types.String.ValueString.
ValueString(v) == IF v \in {Null, Unknown} THEN "" ELSE v

PlansDesiredState(state, plan) ==
  /\ "desired_state" \in DOMAIN plan
  /\ plan["desired_state"] \notin {Null, Unknown}
  /\ ValueString(state["desired_state"]) # plan["desired_state"]

\* A null and an unknown are compared as values: an unknown is never equal to
\* what is in the state.
Diff(state, plan) ==
  LET flips == PlansDesiredState(state, plan)
  IN [fields |-> {o \in FieldOps : /\ AttributeOf[o] \in DOMAIN plan
                                   /\ plan[AttributeOf[o]] # state[AttributeOf[o]]},
      from |-> IF flips THEN ValueString(state["desired_state"]) ELSE "",
      to |-> IF flips THEN ValueString(plan["desired_state"]) ELSE ""]

HasFieldChanges(d) == d.fields # {}
HasDesiredStateChange(d) == d.to # "" /\ d.from # d.to

MapDesiredStateTransition(prev, next) ==
  CASE next = "" \/ prev = next                          -> "noop"
    [] next = "hibernated" /\ prev \in {"", "running"}   -> "hibernate"
    [] next = "running" /\ prev = ""                     -> "noop"
    [] next = "running" /\ prev = "hibernated"           -> "resume"
    [] OTHER                                             -> "error"

Refused == [ok |-> FALSE, ops |-> {}]
Routed(ops) == [ok |-> TRUE, ops |-> ops]

\* Seeded fault for RouteUpdate: a flip may come with field changes.
RouteCombined(d) ==
  LET flip == MapDesiredStateTransition(d.from, d.to)
  IN IF ~HasDesiredStateChange(d) THEN Routed(d.fields)
     ELSE IF flip = "error" THEN Refused
     ELSE Routed(d.fields \cup ({flip} \ {"noop"}))

\* The operations to issue, or a refusal; no request is made for a refusal.
RouteUpdate(d) ==
  LET flip == MapDesiredStateTransition(d.from, d.to)
  IN IF ~HasDesiredStateChange(d) THEN Routed(d.fields)
     ELSE IF HasFieldChanges(d) \/ flip = "error" THEN Refused
     ELSE Routed({flip} \ {"noop"})

\* What an operation's body sets its attribute to.  A null list or map has no
\* body, and a use_case that is null or unknown is sent as "": neither sets
\* anything.
Payload(op, plan) ==
  LET v == plan[AttributeOf[op]]
  IN IF v = Unknown THEN Null ELSE v

\* The operation ApplyUpdates issues next.
IsNext(op, ops) == op \in ops /\ \A o \in ops : Rank[op] <= Rank[o]

=============================================================================
