--------------------------- MODULE ProductImages ---------------------------
(***************************************************************************)
(* The images of one product: its gallery, kept in order with the first    *)
(* image as the thumbnail, and one image for each variant.  The admin's    *)
(* requests read the order, await, and write it back.                      *)
(***************************************************************************)
EXTENDS Naturals, FiniteSets, SequencesExt

CONSTANTS MaxImages,   \* bound: images ever uploaded, numbered from 1
          InGallery,   \* how many of them are in the gallery at the start
          Variants,    \* variants of the product at the start
          Requests,    \* requests in flight
          NULL

ProductImagesAssumption ==
    /\ MaxImages \in Nat /\ InGallery \in 0..MaxImages
    /\ NULL \notin Nat \cup Variants

VARIABLES
    image,     \* the ProductImage rows that exist, by id
    created,   \* how many rows were ever created
    variants,  \* variants that exist
    request,   \* what each request has read
    disturbed  \* history: an upload to the gallery has overlapped another request, and no
               \* order of all images was written alone since

vars == <<image, created, variants, request, disturbed>>

Images == 1..MaxImages
Idle == [op |-> "idle"]

Rows == DOMAIN image
ImagesOf(v) == {i \in Rows : image[i].variant = v}
Gallery == ImagesOf(NULL)

\* A row, with the variant it was uploaded for.
Row(v, position, isPrimary) ==
    [variant |-> v, position |-> position, isPrimary |-> isPrimary, uploadedFor |-> v]

\* The gallery without one image, by position; rows with the same one in any order.
Ordered(gone) ==
    {q \in SetToSeqs(Gallery \ {gone}) :
        \A m, n \in DOMAIN q : m < n => image[q[m]].position <= image[q[n]].position}

Insert(row) ==
    /\ created < MaxImages
    /\ created' = created + 1
    /\ image' = [i \in Rows \cup {created + 1} |-> IF i = created + 1 THEN row ELSE image[i]]

End(r) == request' = [request EXCEPT ![r] = Idle]

Uploads(state) == state.op = "add"

\* r begins, and has read what `read` holds.
Start(r, read) ==
    /\ request' = [request EXCEPT ![r] = read]
    /\ disturbed' = (disturbed \/ \E s \in Requests \ {r} :
                                     \/ Uploads(request[s])
                                     \/ Uploads(read) /\ request[s] # Idle)

Alone(r) == \A s \in Requests \ {r} : request[s] = Idle

\* A transaction holds the row it has deleted until it ends.
Deleting(i) == \E r \in Requests : request[r].op = "remove" /\ request[r].target = i

----------------------------------------------------------------------------
(* Gallery *)

AddCounts(r) ==
    /\ request[r] = Idle
    /\ Start(r, [op |-> "add", count |-> Cardinality(Gallery)])
    /\ UNCHANGED <<image, created, variants>>

AddCreates(r) ==
    /\ request[r].op = "add"
    /\ Insert(Row(NULL, request[r].count, request[r].count = 0))
    /\ End(r)
    /\ UNCHANGED <<variants, disturbed>>

\* The transaction deletes the row, if it is there, and reads those that are left.
removeImage(r) ==
    /\ request[r] = Idle
    /\ \E i \in Images :
         /\ ~Deleting(i)
         /\ IF i \in Rows
            THEN \E q \in Ordered(i) : Start(r, [op |-> "remove", target |-> i, order |-> q])
            ELSE UNCHANGED <<request, disturbed>>
    /\ UNCHANGED <<image, created, variants>>

\* The nth of an order first, and the others after it.
Promoted(q, n) == [m \in DOMAIN q |-> IF m = 1 THEN q[n] ELSE IF m <= n THEN q[m - 1] ELSE q[m]]

setPrimaryImage(r) ==
    /\ request[r] = Idle
    /\ \E q \in Ordered(NULL) :
         \E n \in DOMAIN q : Start(r, [op |-> "reorder", order |-> Promoted(q, n)])
    /\ UNCHANGED <<image, created, variants>>

\* Up is down from the image before; there is nothing beyond the ends.
moveImage(r) ==
    /\ request[r] = Idle
    /\ \E q \in Ordered(NULL) :
         \E n \in DOMAIN q :
           /\ n + 1 \in DOMAIN q
           /\ Start(r, [op |-> "reorder",
                        order |-> [q EXCEPT ![n] = q[n + 1], ![n + 1] = q[n]]])
    /\ UNCHANGED <<image, created, variants>>

Place(i, order) == CHOOSE n \in DOMAIN order : order[n] = i

\* Mutant: the marks stay where they are.
PositionsOnly(order) ==
    [i \in Rows |-> IF i \in Range(order)
                    THEN [image[i] EXCEPT !.position = Place(i, order) - 1]
                    ELSE image[i]]

\* Positions from 0, the first one primary.
Reordered(order) ==
    [i \in Rows |-> IF i \in Range(order)
                    THEN [image[i] EXCEPT !.position = Place(i, order) - 1,
                                          !.isPrimary = (Place(i, order) = 1)]
                    ELSE image[i]]

\* The row writes of a transaction take effect together.  A row that has gone fails
\* the transaction; one that another transaction is deleting is waited for.
persistOrder(r) ==
    /\ request[r].op \in {"remove", "reorder"}
    /\ LET order == request[r].order IN
         /\ \A i \in Range(order) : ~Deleting(i)
         /\ image' = IF Range(order) \subseteq Rows
                     THEN Restrict(Reordered(order),
                                   Rows \ (IF request[r].op = "remove" THEN {request[r].target} ELSE {}))
                     ELSE image
         /\ disturbed' = (disturbed /\ ~(Alone(r) /\ Gallery' = Range(order)))
    /\ End(r)
    /\ UNCHANGED <<created, variants>>

\* A deadlock of two transactions, or the loss of the connection.
Abort(r) ==
    /\ request[r] # Idle
    /\ End(r)
    /\ UNCHANGED <<image, created, variants, disturbed>>

----------------------------------------------------------------------------
(* Images of variants *)

SetVariantFinds(r) ==
    /\ request[r] = Idle
    /\ \E v \in variants :
         \E found \in IF ImagesOf(v) = {} THEN {NULL} ELSE ImagesOf(v) :
           Start(r, [op |-> "setVariant", variant |-> v, found |-> found])
    /\ UNCHANGED <<image, created, variants>>

\* The row that was found gets the new url, or fails to; otherwise one is created,
\* if the variant is still there.
SetVariantWrites(r) ==
    /\ request[r].op = "setVariant"
    /\ IF request[r].found = NULL /\ request[r].variant \in variants
       THEN Insert(Row(request[r].variant, 0, FALSE))
       ELSE UNCHANGED <<image, created>>
    /\ End(r)
    /\ UNCHANGED <<variants, disturbed>>

removeVariantImage(v) ==
    /\ v \in variants
    /\ image' = Restrict(image, Rows \ ImagesOf(v))
    /\ UNCHANGED <<created, variants, request, disturbed>>

\* ProductImage.variant is onDelete: SetNull.
Unlinked(v) == [i \in Rows |-> IF i \in ImagesOf(v) THEN [image[i] EXCEPT !.variant = NULL]
                                                   ELSE image[i]]

removeVariant(v) ==
    /\ v \in variants
    /\ variants' = variants \ {v}
    /\ image' = Unlinked(v)
    /\ UNCHANGED <<created, request, disturbed>>

----------------------------------------------------------------------------

Init ==
    /\ image = [i \in 1..InGallery |-> Row(NULL, i - 1, i = 1)]
    /\ created = InGallery
    /\ variants = Variants
    /\ request = [r \in Requests |-> Idle]
    /\ disturbed = FALSE

Next ==
    \/ \E r \in Requests :
         \/ AddCounts(r) \/ AddCreates(r)
         \/ removeImage(r) \/ setPrimaryImage(r) \/ moveImage(r)
         \/ persistOrder(r) \/ Abort(r)
         \/ SetVariantFinds(r) \/ SetVariantWrites(r)
    \/ \E v \in Variants : removeVariantImage(v) \/ removeVariant(v)

Spec == Init /\ [][Next]_vars

----------------------------------------------------------------------------
(* Properties *)

TypeOK ==
    /\ Rows \subseteq 1..created /\ created <= MaxImages
    /\ \A i \in Rows :
         /\ image[i].variant \in variants \cup {NULL}
         /\ image[i].position \in Nat
         /\ image[i].isPrimary \in BOOLEAN
    /\ variants \subseteq Variants
    /\ disturbed \in BOOLEAN
    /\ \A r \in Requests : request[r].op \in {"idle", "add", "remove", "reorder", "setVariant"}

\* "Write positions 0..n and mark the first one primary (the thumbnail)": whatever
\* was added, removed and moved, the gallery has no gaps and one thumbnail, its first.
\* An upload that overlaps another request on the gallery may leave a gap or a second
\* thumbnail; the next removal or move that sees every image, with nothing else in flight,
\* puts that right.  The images of deleted variants turn up anywhere in it.
GalleryInOrder ==
    ~disturbed /\ (\A i \in Gallery : image[i].uploadedFor = NULL) =>
      /\ {image[i].position : i \in Gallery} = 0..(Cardinality(Gallery) - 1)
      /\ \A i \in Gallery : image[i].isPrimary <=> image[i].position = 0

\* "the single image shown for a variant".
SingleVariantImage == \A v \in variants : Cardinality(ImagesOf(v)) <= 1

\* "Save sequentially so each image's position/isPrimary is assigned in order": no
\* two images are the thumbnail.
OneThumbnail == Cardinality({i \in Gallery : image[i].isPrimary}) <= 1

\* "Per-variant images live separately": none is ever in the gallery.
VariantImagesApart == \A i \in Gallery : image[i].uploadedFor = NULL
=============================================================================
