----------------------------- MODULE Catalogue -----------------------------
(***************************************************************************)
(* What hangs below a store: products, their variants, the variants'       *)
(* inventory rows and images, and the images' files in storage.  Rows are  *)
(* deleted softly (images for good) and everything below goes with them;   *)
(* the handlers that create rows look at what is above before they insert, *)
(* most of them without a lock.                                            *)
(***************************************************************************)
EXTENDS Integers, FiniteSets

CONSTANTS
    Calls,
    Products, Variants,
    Parent,     \* the product of each variant
    MaxImages,  \* images a variant may have (5 in the code)
    MaxUploads  \* bound: images ever added to a variant

CatalogueAssumption ==
    /\ Parent \in [Variants -> Products]
    /\ MaxImages \in Nat /\ MaxUploads \in Nat

VARIABLES
    store,     \* is_deleted and approved of the store
    product, variant, inventory, \* "none", "live" or "deleted"
    images,    \* the rows of VariantImage: variant and number
    files,     \* the images whose file is in storage
    uploads,   \* images added so far, by variant
    call       \* a handler between its checks and its commit

rows == <<store, product, variant, inventory>>
media == <<images, files, uploads>>
vars == <<rows, media, call>>

Statuses == {"none", "live", "deleted"}
Images == Variants \X (1..MaxUploads)
Idle == [step |-> "idle", of |-> "store"]
Tops == Products \union Variants \union {"store"}

TypeOK ==
    /\ store \in [deleted : BOOLEAN, approved : BOOLEAN]
    /\ product \in [Products -> Statuses] /\ variant \in [Variants -> Statuses]
    /\ inventory \in [Variants -> Statuses]
    /\ images \union files \subseteq
          {i \in Images : i[2] <= uploads[i[1]]}
    /\ \A v \in Variants :
          Cardinality({i \in images : i[1] = v}) <= MaxImages
    /\ \A c, d \in Calls : \* FOR UPDATE: one upload to a variant at a time
          call[c].step = "image" /\ call[d] = call[c] => c = d
    /\ \A c \in Calls : call[c].of \in Tops

Init == /\ store = [deleted |-> FALSE, approved |-> FALSE]
        /\ product = [p \in Products |-> "none"]
        /\ variant = [v \in Variants |-> "none"]
        /\ inventory = [v \in Variants |-> "none"]
        /\ images = {} /\ files = {} /\ uploads = [v \in Variants |-> 0]
        /\ call = [c \in Calls |-> Idle]

Goto(c, step, of) ==
    /\ call[c].step = "idle"
    /\ call' = [call EXCEPT ![c] = [step |-> step, of |-> of]]
    /\ UNCHANGED <<rows, media>>
At(c, step, of) == call[c] = [step |-> step, of |-> of]
Done(c) == call' = [call EXCEPT ![c] = Idle]
Children(p) == {v \in Variants : Parent[v] = p}
ImagesOf(vs) == {i \in images : i[1] \in vs}

\* add_vimage locks the rows of the variant, its product and the store, and
\* keeps them locked while it stores the file.
Locked(v) == \E c \in Calls : At(c, "image", v)

-----------------------------------------------------------------------------
(* Creation: a look at what is above, then the insert.                     *)

Hangs(of) == IF of \in Variants THEN product[Parent[of]] = "live"
                                     /\ ~store.deleted
                                ELSE ~store.deleted

CheckProduct(c, p) == product[p] = "none" /\ Hangs(p) /\ Goto(c, "product", p)

InsertProduct(c, p) ==
    /\ At(c, "product", p) /\ product[p] = "none"
    /\ product' = [product EXCEPT ![p] = "live"]
    /\ Done(c)
    /\ UNCHANGED <<store, variant, inventory, media>>

CheckVariant(c, v) == variant[v] = "none" /\ Hangs(v) /\ Goto(c, "variant", v)

InsertVariant(c, v) ==
    /\ At(c, "variant", v) /\ variant[v] = "none"
    /\ variant' = [variant EXCEPT ![v] = "live"]
    /\ Done(c)
    /\ UNCHANGED <<store, product, inventory, media>>

CheckInventory(c, v) ==
    /\ inventory[v] = "none" /\ variant[v] = "live"
    /\ product[Parent[v]] = "live"
    /\ Goto(c, "inventory", v)

InsertInventory(c, v) ==
    /\ At(c, "inventory", v) /\ inventory[v] = "none"
    /\ inventory' = [inventory EXCEPT ![v] = "live"]
    /\ Done(c)
    /\ UNCHANGED <<store, product, variant, media>>

\* The unique constraint, or any other failure.
Fail(c) ==
    /\ call[c].step # "idle"
    /\ Done(c)
    /\ UNCHANGED <<rows, media>>

-----------------------------------------------------------------------------
(* Images.                                                                 *)

\* Mutant: the rows are not locked.
CountUnlocked(c, v) ==
    /\ variant[v] = "live" /\ Hangs(v)
    /\ Cardinality(ImagesOf({v})) < MaxImages
    /\ Goto(c, "image", v)

CountImages(c, v) ==
    /\ variant[v] = "live" /\ Hangs(v) /\ ~\E w \in Variants : Locked(w)
    /\ Cardinality(ImagesOf({v})) < MaxImages
    /\ Goto(c, "image", v)

AddImage(c, v) ==
    /\ At(c, "image", v) /\ uploads[v] < MaxUploads
    /\ uploads' = [uploads EXCEPT ![v] = @ + 1]
    /\ images' = images \union {<<v, uploads'[v]>>}
    /\ files' = files \union {<<v, uploads'[v]>>}
    /\ Done(c)
    /\ UNCHANGED rows

DeleteImage(i) ==
    /\ i \in images
    /\ images' = images \ {i} /\ files' = files \ {i}
    /\ UNCHANGED <<rows, uploads, call>>

-----------------------------------------------------------------------------
(* Deletion, with all that is below.                                       *)

DeletedFrom(f, s) ==
    [x \in DOMAIN f |-> IF x \in s /\ f[x] = "live" THEN "deleted" ELSE f[x]]

\* Mutant: the inventory row is left.
VariantOnly(v) ==
    /\ variant[v] = "live" /\ ~Locked(v)
    /\ variant' = [variant EXCEPT ![v] = "deleted"]
    /\ images' = images \ ImagesOf({v}) /\ files' = files \ ImagesOf({v})
    /\ UNCHANGED <<store, product, inventory, uploads, call>>

DeleteVariant(v) ==
    /\ variant[v] = "live" /\ ~Locked(v)
    /\ variant' = [variant EXCEPT ![v] = "deleted"]
    /\ inventory' = DeletedFrom(inventory, {v})
    /\ images' = images \ ImagesOf({v}) /\ files' = files \ ImagesOf({v})
    /\ UNCHANGED <<store, product, uploads, call>>

\* files_to_delete is overwritten for each variant, in the order of loading:
\* only the files of one of them are removed.
DeleteProduct(p) ==
    LET gone == {v \in Children(p) : variant[v] = "live"}
        seen == {v \in Children(p) : variant[v] # "none"} IN
    /\ product[p] = "live" /\ \A v \in Children(p) : ~Locked(v)
    /\ product' = [product EXCEPT ![p] = "deleted"]
    /\ variant' = DeletedFrom(variant, gone)
    /\ inventory' = DeletedFrom(inventory, gone)
    /\ images' = images \ ImagesOf(gone)
    /\ IF seen = {} THEN files' = files
       ELSE \E last \in seen : files' = files \ ImagesOf({last})
    /\ UNCHANGED <<store, uploads, call>>

\* Variants are deleted only when a product is.
RemoveStore ==
    LET gone == {v \in Variants : variant[v] = "live"} IN
    /\ ~store.deleted /\ \A v \in Variants : ~Locked(v)
    /\ store' = [deleted |-> TRUE, approved |-> FALSE]
    /\ product' = DeletedFrom(product, Products)
    /\ inventory' = DeletedFrom(inventory, Variants)
    /\ IF product' = product
       THEN UNCHANGED <<variant, images>>
       ELSE /\ variant' = DeletedFrom(variant, gone)
            /\ images' = images \ ImagesOf(gone)
    /\ files' = files \ images
    /\ UNCHANGED <<uploads, call>>

-----------------------------------------------------------------------------
CheckApproval(c) ==
    ~store.deleted /\ ~store.approved /\ Goto(c, "approve", "store")

ApproveStore(c) ==
    /\ At(c, "approve", "store")
    /\ store' = [store EXCEPT !.approved = TRUE]
    /\ Done(c)
    /\ UNCHANGED <<product, variant, inventory, media>>

Next == \/ \E c \in Calls :
              \/ \E p \in Products : CheckProduct(c, p) \/ InsertProduct(c, p)
              \/ \E v \in Variants :
                    \/ CheckVariant(c, v) \/ InsertVariant(c, v)
                    \/ CheckInventory(c, v) \/ InsertInventory(c, v)
                    \/ CountImages(c, v) \/ AddImage(c, v)
              \/ CheckApproval(c) \/ ApproveStore(c) \/ Fail(c)
        \/ \E v \in Variants : DeleteVariant(v)
        \/ \E p \in Products : DeleteProduct(p)
        \/ \E i \in Images : DeleteImage(i)
        \/ RemoveStore

\* No step of another handler between the checks and the commit of one.
InTurn == \/ \A c \in Calls : call[c] = Idle
          \/ \E c \in Calls : call[c] # Idle /\ call'[c] # call[c]

Spec == Init /\ [][Next]_vars

-----------------------------------------------------------------------------
\* Nothing is live below something deleted, over any sequence of creations and
\* deletions (docs/product.md, Soft Deletion Suppression Trees; delete_one,
\* delete_one_variant, remove_store).
LiveUnderLive ==
    /\ \A p \in Products : product[p] = "live" => ~store.deleted
    /\ \A v \in Variants : /\ variant[v] = "live" => product[Parent[v]] = "live"
                           /\ inventory[v] = "live" => variant[v] = "live"

\* A store that is approved has not been deleted (approve_stores,
\* remove_store).
ApprovedIsThere == store.approved => ~store.deleted

\* Every image row has its file: no deletion of a product or variant takes a
\* file that another row names (delete_one, delete_one_variant, delete_image).
ImagesHaveFiles == images \subseteq files
=============================================================================
