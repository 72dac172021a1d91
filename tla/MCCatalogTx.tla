----------------------------- MODULE MCCatalogTx -----------------------------
(***************************************************************************)
(* CatalogTx for TLC: two images, two tags, two references, a note and a   *)
(* collection.  The image i1 may be there from an earlier upsert.  The     *)
(* transactions are interchangeable, and no property is about liveness.    *)
(***************************************************************************)
EXTENDS CatalogTx, TLC

CONSTANTS i1, i2, n1, n2

Upsert(i, tags, params, refs, description) ==
    [call |-> "upsert_image", image |-> i, tags |-> tags, params |-> params,
     refs |-> refs, description |-> description]

Patch(i, scalars, tags) ==
    [call |-> "patch_image", image |-> i, scalars |-> scalars, tags |-> tags]

Listed(call, images) == [call |-> call, images |-> images]

MCRequests ==
    {Upsert(i1, <<2, 1>>, FALSE, <<n1, n2>>, TRUE),
     Upsert(i1, <<1>>, TRUE, <<n2>>, TRUE),
     Upsert(i1, <<>>, FALSE, <<>>, TRUE),
     Upsert(i2, <<1, 2>>, FALSE, <<>>, FALSE),
     Patch(i1, TRUE, <<2>>),
     Patch(i1, FALSE, <<1, 2>>),
     Listed("delete_images", {i1, i2}),
     Listed("update_note", <<i1>>),
     Listed("update_note", <<i2>>),
     Listed("set_collection_images", <<i1>>),
     Listed("set_collection_images", <<i2>>),
     Listed("set_collection_images", <<i1, i2>>),
     [call |-> "delete_collection"]}

MCSeeds == {Upsert(i1, <<1>>, TRUE, <<n1, n2>>, TRUE)}

Symmetry == Permutations(Txs)

=============================================================================
