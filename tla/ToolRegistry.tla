---------------------------- MODULE ToolRegistry ----------------------------
(***************************************************************************)
(* aether/tools/registry.py and schema.py over aether/registry.py: what is *)
(* registered as a tool, what the model is told of it, and what becomes of *)
(* a call.  Of a function only its parameters are kept: how each one is    *)
(* passed and whether it has a default.  Types and descriptions are left   *)
(* out, as nothing enforces them when the function is called.              *)
(***************************************************************************)
EXTENDS Naturals

CONSTANTS
    ToolNames,
    Functions       \* The functions that get registered, each a function
                    \* from parameter names to Parameter.

VARIABLES
    registry        \* REGISTRY["tool"]

(* "keyword" parameters may also be given by position, "variadic" ones are *)
(* *args and **kwargs.                                                     *)
Parameter == [kind : {"keyword", "positional_only", "variadic"}, default : BOOLEAN]

ASSUME ToolRegistryAssumption ==
    \A func \in Functions : \A p \in DOMAIN func : func[p] \in Parameter

(* What registry.get finds: KeyError, or the last function registered.     *)
Unknown == [none |-> "KeyError"]

RegistryInit == registry \in [ToolNames -> Functions \cup {Unknown}]

(* register_tool replaces what had the name before.                        *)
RegisterTool(name, func) == registry' = [registry EXCEPT ![name] = func]

(* Slip: *args and **kwargs are described like any other parameter.        *)
SchemaWithVariadics(func) ==
    [properties |-> DOMAIN func, required |-> {p \in DOMAIN func : ~ func[p].default}]

(* tool_schema                                                             *)
Schema(func) ==
    LET properties == {p \in DOMAIN func : p # "self" /\ func[p].kind # "variadic"}
    IN  [properties |-> properties,
         required   |-> {p \in properties : ~ func[p].default}]

(* The arguments, by name, of a call that keeps to the schema.             *)
Honouring(func) ==
    {arguments \in SUBSET Schema(func).properties :
        Schema(func).required \subseteq arguments}

(* dispatch_tool calls func with these keyword arguments: no TypeError.     *)
Accepts(func, arguments) ==
    /\ \A p \in DOMAIN func :
          func[p].kind # "variadic" /\ ~ func[p].default => p \in arguments
    /\ \A p \in arguments : p \in DOMAIN func /\ func[p].kind = "keyword"

(* The schema may be that of another function: every parameter that it     *)
(* tells of can be given by name, and it requires all that func needs.     *)
Describes(schema, func) ==
    /\ \A p \in schema.properties : p \in DOMAIN func /\ func[p].kind = "keyword"
    /\ \A p \in DOMAIN func :
          func[p].kind # "variadic" /\ ~ func[p].default => p \in schema.required

(* The functions whose parameters can all be given by name.  A parameter   *)
(* that is called self is never described, and one that is positional only *)
(* is described and then refused.                                          *)
Callable(func) ==
    \A p \in DOMAIN func : p # "self" /\ func[p].kind # "positional_only"
=============================================================================
