---------------------------- MODULE MeshClients ----------------------------
(***************************************************************************)
(* The clients for Services and Configurations that client-gen made: the   *)
(* one that asks the API server (clientset/versioned), and the fake one    *)
(* for tests, that asks an object tracker.  A test makes the same calls on *)
(* both, which start with the same objects.                                *)
(*                                                                         *)
(* An object is [kind, ns, name] and a value; a store is a function from   *)
(* paths to values.  A call is [to, answer], the store after it and what   *)
(* it returns.                                                             *)
(***************************************************************************)
EXTENDS FiniteSets

CONSTANTS
    Ns, Name, \* namespaces, names of objects
    Value,    \* what is in an object
    Nil       \* no object

Kind == {"Service", "Configuration"}
Object == [kind : Kind, ns : Ns, name : Name]

VARIABLES
    provided,  \* the objects that both clients start with
    server,    \* the API server's store
    tracker,   \* the fake's tracker
    last       \* the last call, with the answers of both

vars == <<provided, server, tracker, last>>

GroupName == "mesh.lite.io"
servicesResource == "mesh"    \* the group of the fakes' resources

\* The types that the scheme knows, by the group they are registered for.
addKnownTypes == {<<GroupName, kind>> : kind \in Kind}
Group == {GroupName, servicesResource}
Path == [group : Group, object : Object]

RestPath(o) == [group |-> GroupName, object |-> o]
FakePath(o) == [group |-> servicesResource, object |-> o]

-----------------------------------------------------------------------------
(* What the API server and the tracker do for one path.                      *)

Call(to, answer) == [to |-> to, answer |-> answer]
Put(store, path, v) == Call([store EXCEPT ![path] = v], v)
Failed(store, error) == Call(store, error)

Read(store, path) ==
    IF store[path] # Nil THEN Call(store, store[path]) ELSE Failed(store, "NotFound")
Add(store, path, v) ==
    IF store[path] = Nil THEN Put(store, path, v) ELSE Failed(store, "AlreadyExists")
Replace(store, path, v) ==
    IF store[path] # Nil THEN Put(store, path, v) ELSE Failed(store, "NotFound")
Remove(store, path) ==
    IF store[path] # Nil THEN Call([store EXCEPT ![path] = Nil], "ok")
    ELSE Failed(store, "NotFound")

-----------------------------------------------------------------------------
(* The client of the API server.                                             *)

RestGet(o) == Read(server, RestPath(o))
RestList(kind, ns) ==
    Call(server, {o \in Object : /\ o.kind = kind /\ o.ns = ns
                                 /\ server[RestPath(o)] # Nil})
RestCreate(o, v) == Add(server, RestPath(o), v)
RestUpdate(o, v) == Replace(server, RestPath(o), v)

\* The resource definitions (artifacts/) have no status subresource.
RestUpdateStatus(o, v) == Failed(server, "NotFound")
RestDelete(o) == Remove(server, RestPath(o))
RestDeleteCollection(kind, ns) ==
    Call([p \in Path |-> IF /\ p.group = GroupName
                            /\ p.object.kind = kind /\ p.object.ns = ns
                         THEN Nil ELSE server[p]], "ok")
RestPatch(o, v) == Replace(server, RestPath(o), v)

-----------------------------------------------------------------------------
(* The fake client.                                                          *)

FakeGet(o) == Read(tracker, FakePath(o))

\* The tracker makes a list of a type that the scheme has to know.
FakeList(kind, ns) ==
    IF <<servicesResource, kind>> \notin addKnownTypes
    THEN Failed(tracker, "NotRegistered")
    ELSE Call(tracker, {o \in Object : /\ o.kind = kind /\ o.ns = ns
                                       /\ tracker[FakePath(o)] # Nil})
FakeCreate(o, v) == Add(tracker, FakePath(o), v)
FakeUpdate(o, v) == Replace(tracker, FakePath(o), v)
FakeUpdateStatus(o, v) == Replace(tracker, FakePath(o), v)
FakeDelete(o) == Remove(tracker, FakePath(o))

\* No reaction is there for it: nothing is done, and no error returned.
FakeDeleteCollection(kind, ns) == Call(tracker, "ok")

\* A patch of what is not there is not handled either: an empty object.
FakePatch(o, v) ==
    IF tracker[FakePath(o)] = Nil THEN Call(tracker, "empty")
    ELSE Replace(tracker, FakePath(o), v)

-----------------------------------------------------------------------------

Both(name, on, real, fake) ==
    /\ server' = real.to /\ tracker' = fake.to
    /\ last' = [name |-> name, on |-> on, real |-> real.answer, fake |-> fake.answer]
    /\ UNCHANGED provided

\* NewSimpleClientset: each object is added under the group of its type.
NewSimpleClientset(objects) ==
    [p \in Path |-> IF <<p.group, p.object.kind>> \in addKnownTypes
                    THEN objects[p.object] ELSE Nil]

Init ==
    /\ provided \in [Object -> Value \cup {Nil}]
    /\ server = NewSimpleClientset(provided)
    /\ tracker = NewSimpleClientset(provided)
    /\ last = Nil

Next ==
    \/ \E o \in Object :
          \/ Both("Get", o, RestGet(o), FakeGet(o))
          \/ Both("Delete", o, RestDelete(o), FakeDelete(o))
          \/ \E v \in Value :
                \/ Both("Create", o, RestCreate(o, v), FakeCreate(o, v))
                \/ Both("Update", o, RestUpdate(o, v), FakeUpdate(o, v))
                \/ Both("UpdateStatus", o, RestUpdateStatus(o, v), FakeUpdateStatus(o, v))
                \/ Both("Patch", o, RestPatch(o, v), FakePatch(o, v))
    \/ \E kind \in Kind, ns \in Ns :
          \/ Both("List", [kind |-> kind, ns |-> ns],
                  RestList(kind, ns), FakeList(kind, ns))
          \/ Both("DeleteCollection", [kind |-> kind, ns |-> ns],
                  RestDeleteCollection(kind, ns), FakeDeleteCollection(kind, ns))

Spec == Init /\ [][Next]_vars

\* "NewSimpleClientset returns a clientset that will respond with the provided
\* objects" (fake/clientset_generated.go:32): Get of an object that was
\* provided, and that the other client still has, returns it.
RespondsWithProvidedObjects ==
    \A o \in Object :
       /\ last # Nil /\ provided[o] # Nil
       /\ last.name = "Get" /\ last.on = o /\ last.real = provided[o]
       => last.fake = provided[o]
=============================================================================
