---------------------------- MODULE MCRdeSession ----------------------------
(* An adapter, a collection, a resource that allows nothing, the annotations. *)
EXTENDS RdeSession, TLC

MCResourceIds == {1, 10, AllSchema, 99}
MCValues == {"old", "members", "new"}
MCSize == [v \in MCValues |-> CASE v = "members" -> 2 [] v = "old" -> 2 [] v = "new" -> 3]
MCFlash ==
  (<<1, "MAJOR">> :> 5) @@ (<<10, "MAJOR">> :> 2) @@ (<<AllSchema, "EVENT">> :> 3)
    @@ (<<AllSchema, "REGISTRY">> :> 3)
MCDictionaries == {<<1, "MAJOR">>, <<AllSchema, "REGISTRY">>}
MCPages == {[skip |-> 1, top |-> 1]}
Op(res, type, flags, payload) == [res |-> res, op_type |-> type, flags |-> flags, payload |-> payload]
MCOperations ==
  {Op(1, "READ", {}, <<>>), Op(10, "READ", {"custom"}, <<>>),
   Op(1, "UPDATE", {"payload"}, Encoded("new")), Op(1, "REPLACE", {"payload", "custom"}, Encoded("new")),
   Op(AllSchema, "READ", {}, <<>>)}
=============================================================================
