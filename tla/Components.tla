----------------------------- MODULE Components -----------------------------
(***************************************************************************)
(* The component registry (api/component.c): a linked list of components,  *)
(* each with a linked list of methods, built while the kernel starts, and  *)
(* the two ways from Lua to a method.  component.invoke passes the address *)
(* and the method's name below the arguments, a proxy the arguments alone; *)
(* arguments_start tells the method where they begin.                      *)
(***************************************************************************)
EXTENDS Integers, SequencesExt

CONSTANTS
    Parts,          \* what the drivers register, in order: name, address,
                    \* data and the names of the methods
    Substrings,     \* <<name, filter>>: strstr finds filter in name
    Passed,         \* sequences of arguments Lua passes
    FixedStart,     \* methods that read index 3 whatever arguments_start is
    NoNode          \* NULL

ASSUME ComponentsAssumption ==
    /\ Parts \in Seq(Range(Parts)) /\ IsInjective([i \in DOMAIN Parts |-> Parts[i].address])
    /\ \A part \in Range(Parts) :
           /\ part.methods \in Seq(Range(part.methods)) /\ IsInjective(part.methods)
           /\ NoNode \notin {<<part.address>>} \cup {<<part.address, method>> : method \in Range(part.methods)}
    /\ \A arguments \in Passed : arguments \in Seq(Range(arguments))

VARIABLES
    components,     \* first_component and last_component
    methods,        \* first_method and last_method of each component
    next,           \* the next component or method
    registered      \* how many components, and methods of the next one, are in

registry_vars == <<components, methods, next, registered>>

Empty == [first |-> NoNode, last |-> NoNode]

ComponentsInit ==
    components = Empty /\ methods = << >> /\ next = << >> /\ registered = [parts |-> 0, methods |-> -1]

Part(address) == CHOOSE part \in Range(Parts) : part.address = address
Following == Parts[registered.parts + 1]

-----------------------------------------------------------------------------
(* Mutant: the list's end stays at its first node. *)
AppendedAtFirst(list, node) == IF list.last = NoNode THEN [first |-> node, last |-> node] ELSE list

(* The list with one more node, which the last one is to point to.           *)
Appended(list, node) == [first |-> IF list.last = NoNode THEN node ELSE list.first, last |-> node]
Linked(list, node) ==
    [n \in DOMAIN next \cup {node} |->
        IF n = node THEN NoNode ELSE IF n = list.last THEN node ELSE next[n]]

(* The nodes that a loop over a list comes to. *)
Nodes(list) ==
    LET from[n \in DOMAIN next] == {n} \cup (IF next[n] = NoNode THEN {} ELSE from[next[n]])
    IN  IF list.first = NoNode THEN {} ELSE from[list.first]

NewComponent ==
    /\ registered.parts < Len(Parts) /\ registered.methods = -1
    /\ methods' = [address \in DOMAIN methods \cup {Following.address} |->
                     IF address = Following.address THEN Empty ELSE methods[address]]
    /\ registered' = [registered EXCEPT !.methods = 0]
    /\ UNCHANGED <<components, next>>

AddMethod ==
    /\ registered.parts < Len(Parts)
    /\ registered.methods \in 0 .. Len(Following.methods) - 1
    /\ LET address == Following.address
           method == <<address, Following.methods[registered.methods + 1]>>
       IN  /\ methods' = [methods EXCEPT ![address] = Appended(@, method)]
           /\ next' = Linked(methods[address], method)
    /\ registered' = [registered EXCEPT !.methods = @ + 1]
    /\ UNCHANGED components

AddComponent ==
    /\ registered.parts < Len(Parts) /\ registered.methods = Len(Following.methods)
    /\ components' = Appended(components, <<Following.address>>)
    /\ next' = Linked(components, <<Following.address>>)
    /\ registered' = [parts |-> registered.parts + 1, methods |-> -1]
    /\ UNCHANGED methods

Register == NewComponent \/ AddMethod \/ AddComponent

-----------------------------------------------------------------------------
(* The Lua functions; they only read, and raise an error for what they do    *)
(* not find.                                                                 *)
NoSuchComponent == "no such component"
NoSuchMethod == "no such method"
Known(address) == <<address>> \in Nodes(components)
MethodsOf(address) == {method[2] : method \in Nodes(methods[address])}

(* list's table of names. *)
ComponentList(filter, is_exact) ==
    LET Matches(name) == \/ filter = ""
                         \/ is_exact /\ name = filter
                         \/ ~is_exact /\ <<name, filter>> \in Substrings
    IN  [address \in {node[1] : node \in {n \in Nodes(components) : Matches(Part(n[1]).name)}} |->
            Part(address).name]

ComponentType(address) == IF Known(address) THEN Part(address).name ELSE NoSuchComponent
ComponentMethods(address) == IF Known(address) THEN MethodsOf(address) ELSE NoSuchComponent

(* What a method gets to see: its component's data and its arguments on Lua's *)
(* stack.                                                                    *)
Invoke(address, method, stack, arguments_start) ==
    [method |-> method, data |-> Part(address).data,
     arguments |-> SubSeq(stack, IF method \in FixedStart THEN 3 ELSE arguments_start, Len(stack))]

ComponentInvoke(address, name, arguments) ==
    IF ~Known(address) THEN NoSuchComponent
    ELSE IF name \notin MethodsOf(address) THEN NoSuchMethod
    ELSE Invoke(address, name, <<address, name>> \o arguments, 3)

ProxyCall(address, method, arguments) == Invoke(address, method, arguments, 1)

ComponentProxy(address) ==
    IF Known(address)
    THEN [address |-> address, type |-> Part(address).name, functions |-> MethodsOf(address)]
    ELSE NoSuchComponent

-----------------------------------------------------------------------------
(* A component is found from the moment it is added, with the methods it was *)
(* given and no others, and each method gets its component's data and all of *)
(* its arguments, by whichever way it is called.  getPaletteColor, which     *)
(* takes its argument from index 3, gets it only from invoke.                *)
CallsAgree ==
    \A i \in DOMAIN Parts :
        LET part == Parts[i]
            address == part.address
        IN  IF i > registered.parts
            THEN /\ address \notin DOMAIN ComponentList("", TRUE)
                 /\ NoSuchComponent \in {ComponentType(address), ComponentProxy(address)}
            ELSE /\ ComponentType(address) = part.name
                 /\ address \in DOMAIN ComponentList(part.name, TRUE)
                 /\ ComponentMethods(address) = Range(part.methods)
                 /\ ComponentProxy(address).functions = Range(part.methods)
                 /\ \A method \in Range(part.methods), arguments \in Passed :
                        LET seen == [method |-> method, data |-> part.data, arguments |-> arguments]
                        IN  /\ ComponentInvoke(address, method, arguments) = seen
                            /\ method \notin FixedStart =>
                                   ProxyCall(address, method, arguments) = seen
=============================================================================
