------------------------------ MODULE CatalogTx ------------------------------
(***************************************************************************)
(* The transactions of deedlit.catalog (catalog/repository.py) that write  *)
(* more than one row, run concurrently on Postgres at READ COMMITTED.      *)
(*                                                                         *)
(* A function of the repository is its program: the SQL statements it      *)
(* issues, in order.  The engine below runs the programs.  A statement     *)
(* takes its snapshot when it starts and then handles its rows one at a    *)
(* time; it waits for a row that another transaction has locked and looks  *)
(* again when that one ends; locks are kept until commit or rollback.      *)
(* Transactions that wait for each other in a circle are a deadlock:       *)
(* Postgres rolls one of them back, _run_in_tx repeats it, and the         *)
(* functions that open their transaction themselves raise.                 *)
(*                                                                         *)
(* upsert_image reads the image again after its commit, on a connection of *)
(* its own, and asserts that it is there.                                  *)
(*                                                                         *)
(* A row is a key and the transaction that inserted it.  The writer tells  *)
(* a row from one inserted again under the same key, and the rows of one   *)
(* request from those of another.                                          *)
(***************************************************************************)
EXTENDS Integers, Sequences, FiniteSets

Seqs == INSTANCE SequencesExt

CONSTANTS
    Txs,        \* transactions, one per call of the repository
    Images, References,     \* names of images and of what an image refers to
    Requests,   \* the calls they may be
    Seeds,      \* the upserts whose rows may be there at the start
    Seed,       \* the writer of those rows, of the note and of the collection
    Note, Collection,
    Attempts    \* the attempts of _run_in_tx (5 in the code)

ASSUME SeedAssumption == Seed \notin Txs
ASSUME SeedsAssumption == IsFiniteSet(Seeds)
ASSUME AttemptsAssumption == Attempts \in Nat \ {0}

\* Tags are numbers, ordered as their normalized names.
Request ==
    [call : {"upsert_image"}, image : Images, tags : Seq(Nat), params : BOOLEAN,
     refs : Seq(References), description : BOOLEAN]
    \cup [call : {"patch_image"}, image : Images, scalars : BOOLEAN, tags : Seq(Nat)]
    \cup [call : {"delete_images"}, images : SUBSET Images]
    \cup [call : {"update_note", "set_collection_images"}, images : Seq(Images)]
    \cup [call : {"delete_collection"}]

ASSUME RequestsAssumption ==
    /\ Requests \subseteq Request
    /\ \A r \in Seeds : r \in Request /\ r.call = "upsert_image"

-----------------------------------------------------------------------------
(* A key is <<table, owner, name>>: what the WHERE clauses select on, and  *)
(* what tells the rows of one owner apart.  The owner of a row of a child  *)
(* table is the row its foreign key names, written This in a program.      *)

None == "none"
This == "this"
Row(k, t) == [key |-> k, by |-> t]

ImageKey(s) == <<"images", s, None>>
TagKey(g) == <<"tags", g, None>>
RefKey(s, n) == <<"image_references", s, n>>
NoteKey == <<"notes", Note, None>>
CollectionKey == <<"collections", Collection, None>>
LinkKey(g) == <<"image_tags", This, g>>
ParamsKey == <<"generation_params", This, None>>
DescriptionKey == <<"image_descriptions", This, None>>  \* the one provider
NoteRefKey(s) == <<"note_image_refs", This, s>>
MemberKey(s) == <<"collection_images", This, s>>

\* The tables whose rows go with the row they belong to.
ChildTables == {"image_tags", "generation_params", "image_descriptions",
                "note_image_refs", "collection_images"}

-----------------------------------------------------------------------------
(* Statements.  An insert lists its keys in the order it takes them; the   *)
(* other statements select rows by table and owner.  A transaction ends    *)
(* when a statement that must match a row matches none.                    *)

Doing(does, on, must) == [does |-> does, on |-> on, must |-> must]
Statement(does, on, must) == <<Doing(does, on, must)>>

Putting(k) == Doing("put", <<k>>, FALSE)              \* INSERT .. DO UPDATE
Put(k) == <<Putting(k)>>
Ensure(ks) == Statement("ensure", ks, FALSE)          \* INSERT .. DO NOTHING
Inserting(k) == Doing("insert", <<k>>, FALSE)         \* into a table with a unique key
Accrue(k) == Statement("append", <<k>>, FALSE)        \* into a table without
Link(G) == Statement("link", G, FALSE)                \* INSERT .. SELECT .. DO NOTHING
Delete(K) == Statement("delete", {<<k[1], k[2]>> : k \in K}, FALSE)
Cascade == Statement("cascade", {}, FALSE)            \* ON DELETE CASCADE
Update(k, must) == Statement("update", {<<k[1], k[2]>>}, must)
Select(k) == Statement("select", {<<k[1], k[2]>>}, TRUE)
CheckingParent == Doing("fkey", <<This>>, FALSE)      \* checked when an INSERT ends
ForeignKey == <<CheckingParent>>

InsertEach(keys) ==
    [i \in 1..(2 * Len(keys)) |-> IF i % 2 = 1 THEN Inserting(keys[(i + 1) \div 2])
                                              ELSE CheckingParent]

\* Mutant: the tags in the order of the request.
Unsorted(tags) == tags

\* The tags of a request, each once, in the order of their names.
Sorted(tags) ==
    LET G == Seqs!ToSet(tags)
    IN  [i \in 1..Cardinality(G) |-> CHOOSE g \in G : Cardinality({h \in G : h <= g}) = i]

EnsureTags(tags) == Ensure([i \in DOMAIN Sorted(tags) |-> TagKey(Sorted(tags)[i])])

\* Mutant: the tags are resolved before the missing ones are inserted.
SetTagsLinkedFirst(s, tags, replace) ==
    Select(ImageKey(s))
        \o (IF replace THEN Delete({LinkKey(None)}) ELSE <<>>)
        \o (IF tags = <<>> THEN <<>>
            ELSE Link(Seqs!ToSet(tags)) \o ForeignKey \o EnsureTags(tags))

SetTags(s, tags, replace) ==
    Select(ImageKey(s))
        \o (IF replace THEN Delete({LinkKey(None)}) ELSE <<>>)
        \o (IF tags = <<>> THEN <<>>
            ELSE EnsureTags(tags) \o Link(Seqs!ToSet(tags)) \o ForeignKey)

SetParams(s) == Select(ImageKey(s)) \o Put(ParamsKey) \o ForeignKey

\* Mutant: the earlier references are kept.
SetReferencesKept(s, names) ==
    [i \in DOMAIN names |-> Putting(RefKey(s, names[i]))]

SetReferences(s, names) ==
    Delete({RefKey(s, None)}) \o [i \in DOMAIN names |-> Putting(RefKey(s, names[i]))]

SetDescription(s) ==
    Select(ImageKey(s)) \o Delete({DescriptionKey}) \o Accrue(DescriptionKey) \o ForeignKey

SetNoteRefs(images) ==
    Delete({NoteRefKey(None)})
        \o InsertEach([i \in DOMAIN images |-> NoteRefKey(images[i])])

\* Mutant: a member that is there already is passed over.
SetMembersLenient(images) ==
    Delete({MemberKey(None)})
        \o [i \in 1..(2 * Len(images)) |->
                IF i % 2 = 1 THEN Doing("ensure", <<MemberKey(images[(i + 1) \div 2])>>, FALSE)
                ELSE CheckingParent]

SetMembers(images) ==
    Delete({MemberKey(None)})
        \o InsertEach([i \in DOMAIN images |-> MemberKey(images[i])])

\* Mutant: a row that is there already is left alone, so it is not locked.
StoreImageIgnored(s) == Ensure(<<ImageKey(s)>>)

StoreImage(s) == Put(ImageKey(s))

UpsertImage(r) ==
    StoreImage(r.image)
        \o (IF r.tags = <<>> THEN <<>> ELSE SetTags(r.image, r.tags, FALSE))
        \o (IF r.params THEN SetParams(r.image) ELSE <<>>)
        \o (IF r.refs = <<>> THEN <<>> ELSE SetReferences(r.image, r.refs))
        \o (IF r.description THEN SetDescription(r.image) ELSE <<>>)

PatchImage(r) ==
    Select(ImageKey(r.image))
        \o (IF r.scalars THEN Update(ImageKey(r.image), FALSE) ELSE <<>>)
        \o SetTags(r.image, r.tags, TRUE)

DeleteImages(r) ==
    Delete({RefKey(s, None) : s \in r.images})
        \o Delete({ImageKey(s) : s \in r.images}) \o Cascade

\* Mutant: the note is looked for, as set_collection_images looks for its collection.
UpdateNoteUnlocked(r) == Select(NoteKey) \o SetNoteRefs(r.images)

UpdateNote(r) == Update(NoteKey, TRUE) \o SetNoteRefs(r.images)

SetCollectionImages(r) == Select(CollectionKey) \o SetMembers(r.images)

DeleteCollection(r) == Delete({CollectionKey}) \o Cascade

Program(r) ==
    CASE r.call = "upsert_image" -> UpsertImage(r)
      [] r.call = "patch_image" -> PatchImage(r)
      [] r.call = "delete_images" -> DeleteImages(r)
      [] r.call = "update_note" -> UpdateNote(r)
      [] r.call = "set_collection_images" -> SetCollectionImages(r)
      [] r.call = "delete_collection" -> DeleteCollection(r)

Programs == [r \in Requests |-> Program(r)]

\* The calls that go through _run_in_tx.
Retried == {"upsert_image", "patch_image"}

-----------------------------------------------------------------------------

VARIABLES
    db,     \* the committed rows
    req,    \* [Txs -> Requests]
    tx,     \* [Txs -> record]: how far each transaction is, what it wrote and locked
    found   \* what the upserts that committed read back

rows == <<db, req, tx>>
vars == <<rows, found>>

NoRow == Row(<<None, None, None>>, Seed)

Begun(try) ==
    [st |-> "open",         \* or "committed", "failed"
     try |-> try,           \* the attempt of _run_in_tx
     at |-> 1,              \* the statement it is at
     started |-> FALSE,     \* whether that one has its snapshot
     todo |-> <<>>,         \* and the rows it has yet to handle
     row |-> NoRow,         \* the row selected or updated last
     ins |-> {},            \* rows inserted,
     del |-> {},            \* deleted,
     upd |-> {},            \* updated,
     shr |-> {}]            \* and locked by a foreign key, not committed yet

Ended(st, try) == [Begun(try) EXCEPT !.st = st]

\* The rows an upsert leaves when it runs alone.
StoredBy(r) ==
    LET image == Row(ImageKey(r.image), Seed)
        Of(k) == Row(<<k[1], image, k[3]>>, Seed)
    IN  {image} \cup {Row(TagKey(g), Seed) : g \in Seqs!ToSet(r.tags)}
            \cup {Of(LinkKey(g)) : g \in Seqs!ToSet(r.tags)}
            \cup {Row(RefKey(r.image, n), Seed) : n \in Seqs!ToSet(r.refs)}
            \cup (IF r.params THEN {Of(ParamsKey)} ELSE {})
            \cup (IF r.description THEN {Of(DescriptionKey)} ELSE {})

Init ==
    /\ \E S \in SUBSET Seeds :
           db = {Row(NoteKey, Seed), Row(CollectionKey, Seed)}
                    \cup UNION {StoredBy(r) : r \in S}
    /\ req \in [Txs -> Requests]
    /\ tx = [t \in Txs |-> Begun(1)]
    /\ found = [t \in Txs |-> "unread"]

-----------------------------------------------------------------------------

Visible(t) == (db \ tx[t].del) \cup tx[t].ins
Named(t, k) == {x \in Visible(t) : x.key = k}
AtEnd(t) == tx[t].at > Len(Programs[req[t]])
Current(t) == Programs[req[t]][tx[t].at]
IsAt(t, kinds) == tx[t].st = "open" /\ ~AtEnd(t) /\ Current(t).does \in kinds

\* This, in a key or a WHERE clause, is the row selected last.
Bound(t, k) == IF k[1] \in ChildTables THEN [k EXCEPT ![2] = tx[t].row] ELSE k

\* The rows a statement's snapshot shows it; a link inserts a key for each tag there.
Matches(t) ==
    LET s == Current(t) IN
    CASE s.does = "cascade" ->
            {x \in Visible(t) : x.key[1] \in ChildTables /\ x.key[2] \in tx[t].del}
      [] s.does = "link" ->
            {Bound(t, LinkKey(g)) : g \in {h \in s.on : Named(t, TagKey(h)) # {}}}
      [] OTHER ->
            {x \in Visible(t) : \E w \in s.on : <<x.key[1], x.key[2]>> = Bound(t, w)}

\* The keys of an insert need no snapshot.
Pending(t) ==
    IF tx[t].started THEN tx[t].todo
    ELSE IF Current(t).does = "fkey" THEN <<tx[t].row>>
    ELSE IF Current(t).does \in {"put", "ensure", "insert", "append"}
         THEN [i \in DOMAIN Current(t).on |-> Bound(t, Current(t).on[i])]
    ELSE <<>>

\* An insert of the parent's children asks that the parent is there, and keeps it.
NeedsParent(t) ==
    /\ \E x \in tx[t].ins : x.key[1] \in ChildTables /\ x.key[2] = tx[t].row
    /\ tx[t].row \notin tx[t].upd \cup tx[t].shr \cup tx[t].ins

\* The transactions whose end t waits for.
Blockers(t) ==
    IF tx[t].st # "open" \/ AtEnd(t) \/ Pending(t) = <<>> THEN {}
    ELSE LET h == Head(Pending(t))
             does == Current(t).does
         IN  {u \in Txs \ {t} :
                \/ /\ does \in {"put", "ensure", "insert", "link"}
                   /\ \E x \in tx[u].ins \cup tx[u].del \cup tx[u].upd : x.key = h
                \/ /\ does \in {"delete", "cascade"}
                   /\ h \in tx[u].del \cup tx[u].upd \cup tx[u].shr
                \/ does = "update" /\ h \in tx[u].del \cup tx[u].upd
                \/ does = "fkey" /\ NeedsParent(t) /\ h \in tx[u].del}

Turn(t, kinds) == IsAt(t, kinds) /\ Pending(t) # <<>> /\ Blockers(t) = {}

Step(t, x) == tx' = [tx EXCEPT ![t] = x] /\ UNCHANGED <<req, found>>

NextStatement(x) == [x EXCEPT !.at = @ + 1, !.started = FALSE, !.todo = <<>>]

\* The transaction after a statement that matched no row.
Missed(t) ==
    IF Current(t).must THEN [NextStatement(tx[t]) EXCEPT !.at = Len(Programs[req[t]]) + 1]
    ELSE NextStatement(tx[t])

\* x, past the row that was first in the statement's list.
Past(t, x) ==
    IF Len(Pending(t)) = 1 THEN NextStatement(x)
    ELSE [x EXCEPT !.started = TRUE, !.todo = Tail(Pending(t))]

Inserted(t, k) == [tx[t] EXCEPT !.ins = @ \cup {Row(k, t)}]

-----------------------------------------------------------------------------

Nothing(t) ==
    /\ IsAt(t, {"select", "update", "delete", "cascade", "link"})
    /\ ~tx[t].started
    /\ Matches(t) = {}
    /\ Step(t, Missed(t))
    /\ UNCHANGED db

SelectRow(t) ==
    /\ IsAt(t, {"select"})
    /\ \E x \in Matches(t) : Step(t, NextStatement([tx[t] EXCEPT !.row = x]))
    /\ UNCHANGED db

Scan(t) ==
    /\ IsAt(t, {"update", "delete", "cascade", "link"})
    /\ ~tx[t].started
    /\ Matches(t) # {}
    /\ \E q \in Seqs!SetToSeqs(Matches(t)) :
           Step(t, [tx[t] EXCEPT !.started = TRUE, !.todo = q])
    /\ UNCHANGED db

PutRow(t) ==
    /\ Turn(t, {"put"})
    /\ LET k == Head(Pending(t))
       IN  Step(t, Past(t, IF Named(t, k) = {} THEN Inserted(t, k)
                           ELSE [tx[t] EXCEPT !.upd = @ \cup (Named(t, k) \cap db)]))
    /\ UNCHANGED db

EnsureRow(t) ==
    /\ Turn(t, {"ensure", "link"})
    /\ LET k == Head(Pending(t))
       IN  Step(t, Past(t, IF Named(t, k) = {} THEN Inserted(t, k) ELSE tx[t]))
    /\ UNCHANGED db

\* A duplicate key is an IntegrityError, which is not repeated.
InsertRow(t) ==
    /\ Turn(t, {"insert"})
    /\ LET k == Head(Pending(t))
       IN  Step(t, IF Named(t, k) = {} THEN Past(t, Inserted(t, k))
                   ELSE Ended("failed", tx[t].try))
    /\ UNCHANGED db

AppendRow(t) ==
    /\ Turn(t, {"append"})
    /\ Step(t, Past(t, Inserted(t, Head(Pending(t)))))
    /\ UNCHANGED db

\* A row that went while the statement waited for it is passed over.
DeleteRow(t) ==
    /\ Turn(t, {"delete", "cascade"})
    /\ Step(t, Past(t, [tx[t] EXCEPT !.del = @ \cup ({Head(Pending(t))} \cap db),
                                     !.ins = @ \ {Head(Pending(t))}]))
    /\ UNCHANGED db

UpdateRow(t) ==
    /\ Turn(t, {"update"})
    /\ LET x == Head(Pending(t))
       IN  Step(t, IF x \in db THEN Past(t, [tx[t] EXCEPT !.upd = @ \cup {x}, !.row = x])
                   ELSE Missed(t))
    /\ UNCHANGED db

\* A parent that is gone is an IntegrityError too.
CheckParent(t) ==
    /\ Turn(t, {"fkey"})
    /\ \/ ~NeedsParent(t) /\ Step(t, Past(t, tx[t]))
       \/ /\ NeedsParent(t) /\ tx[t].row \in db
          /\ Step(t, Past(t, [tx[t] EXCEPT !.shr = @ \cup {tx[t].row}]))
       \/ /\ NeedsParent(t) /\ tx[t].row \notin db
          /\ Step(t, Ended("failed", tx[t].try))
    /\ UNCHANGED db

Commit(t) ==
    /\ tx[t].st = "open" /\ AtEnd(t)
    /\ db' = (db \ tx[t].del) \cup tx[t].ins
    /\ Step(t, Ended("committed", tx[t].try))

\* A circle of transactions, each waiting for another one of it.
Deadlocked(D) ==
    /\ D # {}
    /\ \A t \in D : Blockers(t) \cap D # {}
    /\ \A C \in SUBSET D \ {{}, D} : \E t \in C : Blockers(t) \cap C = {}

Again(t) == req[t].call \in Retried /\ tx[t].try < Attempts

RollBack(t) ==
    /\ \E D \in SUBSET Txs : t \in D /\ Deadlocked(D)
    /\ Step(t, IF Again(t) THEN Begun(tx[t].try + 1)
               ELSE Ended("failed", tx[t].try))
    /\ UNCHANGED db

\* Mutant: the image is read back before the commit.
ReadBackEarly(t) ==
    /\ req[t].call = "upsert_image" /\ found[t] = "unread"
    /\ tx[t].st = "open" /\ AtEnd(t)
    /\ found' = [found EXCEPT ![t] =
           IF \E x \in db : x.key = ImageKey(req[t].image) THEN "image" ELSE "none"]
    /\ UNCHANGED rows

\* The read of upsert_image after its transaction: none fails its assert.
ReadBack(t) ==
    /\ req[t].call = "upsert_image" /\ found[t] = "unread"
    /\ tx[t].st = "committed"
    /\ found' = [found EXCEPT ![t] =
           IF \E x \in db : x.key = ImageKey(req[t].image) THEN "image" ELSE "none"]
    /\ UNCHANGED rows

Answered ==
    \A t \in Txs :
        \/ tx[t].st = "failed"
        \/ tx[t].st = "committed" /\ (req[t].call = "upsert_image" => found[t] # "unread")

Next ==
    \/ \E t \in Txs :
        \/ Nothing(t) \/ SelectRow(t) \/ Scan(t) \/ PutRow(t) \/ EnsureRow(t)
        \/ InsertRow(t) \/ AppendRow(t) \/ DeleteRow(t) \/ UpdateRow(t)
        \/ CheckParent(t) \/ Commit(t) \/ RollBack(t) \/ ReadBack(t)
    \/ Answered /\ UNCHANGED vars

Spec == Init /\ [][Next]_vars

-----------------------------------------------------------------------------
(* Properties.                                                             *)

\* _set_description keeps one description per image and provider, though the table
\* has no key that says so: what keeps two upserts of an image apart is the lock
\* the first statement of each takes on the image's row.
OneDescription ==
    \A x, y \in db : x.key[1] = "image_descriptions" /\ x.key = y.key => x = y

\* The references of an image are the whole list of one upsert, never parts of two
\* and never a part, though they are deleted and inserted row by row.
ReferencesOfOneUpsert ==
    \A x \in db : x.key[1] = "image_references" /\ x.by # Seed =>
        {y \in db : y.key[1] = "image_references" /\ y.key[2] = x.key[2]}
            = {Row(RefKey(x.key[2], n), x.by) : n \in Seqs!ToSet(req[x.by].refs)}

\* The images of a note are the list of one update: the UPDATE of the note's row
\* comes first and keeps the second update waiting before it looks at the list.
NoteOfOneUpdate ==
    \A x \in db : x.key[1] = "note_image_refs" =>
        {y \in db : y.key[1] = "note_image_refs"}
            = {Row(<<"note_image_refs", x.key[2], s>>, x.by) :
                   s \in Seqs!ToSet(req[x.by].images)}

\* Upserts alone never deadlock: new tags are inserted in the order of their names,
\* and an upsert that waits for an image's row holds nothing yet.
UpsertsNeverDeadlock ==
    \A D \in SUBSET Txs : Deadlocked(D) => \E t \in D : req[t].call # "upsert_image"

\* An upsert whose transaction fails has lost a deadlock in every attempt: whatever
\* runs beside it, the row it works under and the tags it links to stay where they are.
\* One that stored its rows is refused all the same when a delete of its image commits
\* before the image is read back (the assert of repository.py:194), and only then.
RefusalsHaveACause ==
    \A t \in Txs : req[t].call = "upsert_image" =>
        /\ tx[t].st = "failed" => tx[t].try = Attempts
        /\ found[t] = "none" =>
              \E u \in Txs : /\ req[u].call = "delete_images" /\ tx[u].st = "committed"
                            /\ req[t].image \in req[u].images

\* An upsert that committed has linked all its tags, those another transaction
\* was inserting at the same time included, unless a patch or a delete of the image
\* ran too.
TagsLinked ==
    \A t \in Txs :
        /\ req[t].call = "upsert_image" /\ tx[t].st = "committed"
        /\ \A u \in Txs : req[u].call \notin {"patch_image", "delete_images"}
        => \A g \in Seqs!ToSet(req[t].tags) :
               \E x, y \in db : /\ x.key = ImageKey(req[t].image)
                                /\ y.key = <<"image_tags", x, g>>

\* What is in a collection are whole lists: a call that other calls interfere with
\* stores all its images or, when one of them is there by then, none.  (It is not the
\* list of one call: no statement of set_collection_images locks the collection, so
\* two calls with no image in common are both stored.)
CollectionOfWholeLists ==
    \A x \in db : x.key[1] = "collection_images" =>
        {y \in db : y.key[1] = "collection_images" /\ y.by = x.by}
            = {Row(<<"collection_images", x.key[2], s>>, x.by) :
                   s \in Seqs!ToSet(req[x.by].images)}

\* Rows that belong together come from one call, whatever ran beside it: the
\* description, the references, the images of a note and those of a collection
\* (repository.py deletes and inserts each of them row by row).
RowsAreOfWholeCalls ==
    OneDescription /\ ReferencesOfOneUpsert /\ NoteOfOneUpdate /\ CollectionOfWholeLists

\* Upserts go through (_run_in_tx repeats an upsert that lost a deadlock): they do not
\* lock each other out, and nothing refuses one but deadlocks with other calls in every
\* attempt or a delete of the very image before the answer.
UpsertsGoThrough == UpsertsNeverDeadlock /\ RefusalsHaveACause

=============================================================================
