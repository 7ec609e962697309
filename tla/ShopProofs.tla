---------------------------- MODULE ShopProofs ------------------------------
(***************************************************************************)
(* What holds, for every value of the constants, of the requests about     *)
(* what is sold: the catalogue, the files of photos, carts and categories. *)
(* RequestsProofs draws the properties of MCRequests from it.              *)
(***************************************************************************)
EXTENDS MCRequests, QuantitiesTheorems, FiniteSetTheorems, SequenceTheorems,
        TLAPS

-----------------------------------------------------------------------------
(***************************************************************************)
(* Products, variants, their inventories and images.                       *)
(***************************************************************************)
(* The instance's copy of FiniteSets is FiniteSets.                        *)
LEMMA CatalogueFinite == \A S : Catalogue!IsFiniteSet(S) <=> IsFiniteSet(S)
  BY DEF Catalogue!IsFiniteSet, IsFiniteSet
LEMMA CatalogueCardinality ==
  ASSUME NEW S PROVE Catalogue!Cardinality(S) = Cardinality(S)
  BY Zenon DEF Catalogue!Cardinality, Cardinality
USE CatalogueFinite, CatalogueCardinality

(* An image, or an upload on its way, belongs to a live variant of a live  *)
(* product; the lock lets one upload through at a time, and it found room. *)
CatalogueSteps ==
    {"idle", "product", "variant", "inventory", "image", "approve"}
CatalogueInv ==
    /\ Catalogue!TypeOK
    /\ catalogueCall \in [Calls -> [step : CatalogueSteps,
                                    of : Catalogue!Tops]]
    /\ uploads \in [(DOMAIN Parent) -> 0..MaxUploads]
    /\ images \subseteq files
    /\ \A i \in images : variant[i[1]] = "live"
         /\ product[Parent[i[1]]] = "live"
    /\ \A c \in Calls : catalogueCall[c].step = "image" =>
          /\ catalogueCall[c].of \in (DOMAIN Parent)
          /\ variant[catalogueCall[c].of] = "live"
          /\ product[Parent[catalogueCall[c].of]] = "live"
          /\ Cardinality(Catalogue!ImagesOf({catalogueCall[c].of})) < MaxImages
    /\ \A c, d \in Calls :
          catalogueCall[c].step = "image" /\ catalogueCall[d].step = "image"
            => c = d

\* Of a variant's images there are finitely many, and no more of fewer.
LEMMA CatalogueCount ==
  ASSUME Catalogue!CatalogueAssumption, Catalogue!TypeOK,
         NEW v \in (DOMAIN Parent)
  PROVE  /\ {i \in images : i[1] = v} = Catalogue!ImagesOf({v})
         /\ IsFiniteSet(Catalogue!ImagesOf({v}))
         /\ Cardinality(Catalogue!ImagesOf({v})) \in Nat
         /\ \A S \in SUBSET images :
               Cardinality({i \in S : i[1] \in {v}})
                  <= Cardinality(Catalogue!ImagesOf({v}))
<1>1. Catalogue!ImagesOf({v}) \in SUBSET ({v} \X (1..MaxUploads))
  BY DEF Catalogue!TypeOK, Catalogue!ImagesOf, Catalogue!Images
<1>2. IsFiniteSet(1..MaxUploads)
  <2>1. MaxUploads \in Nat
    BY DEF Catalogue!CatalogueAssumption
  <2> QED  BY <2>1, FS_Interval
<1>3. IsFiniteSet({v} \X (1..MaxUploads))
  BY <1>2, FS_Product, FS_Singleton
<1>4. IsFiniteSet(Catalogue!ImagesOf({v}))
  BY <1>1, <1>3, FS_Subset
<1>5. ASSUME NEW S \in SUBSET images
      PROVE  Cardinality({i \in S : i[1] \in {v}})
               <= Cardinality(Catalogue!ImagesOf({v}))
  <2>1. {i \in S : i[1] \in {v}} \in SUBSET Catalogue!ImagesOf({v})
    BY DEF Catalogue!ImagesOf
  <2> QED BY <2>1, <1>4, FS_Subset
<1>6. {i \in images : i[1] = v} = Catalogue!ImagesOf({v})
  BY DEF Catalogue!ImagesOf
<1> QED BY <1>4, <1>5, <1>6, FS_CardinalityType

LEMMA CatalogueInit ==
  ASSUME Catalogue!CatalogueAssumption
  PROVE  Catalogue!Init => CatalogueInv
<1> SUFFICES ASSUME Catalogue!Init PROVE CatalogueInv
  OBVIOUS
<1> USE DEF Catalogue!CatalogueAssumption, Catalogue!Init, Catalogue!Idle
<1>1. catalogueCall \in [Calls -> [step : CatalogueSteps, of : Catalogue!Tops]]
  BY DEF CatalogueSteps, Catalogue!Tops
<1>2. \A v \in (DOMAIN Parent) : Cardinality({i \in images : i[1] = v})
        <= MaxImages
  <2> SUFFICES ASSUME NEW v \in (DOMAIN Parent)
               PROVE  Cardinality({i \in images : i[1] = v}) <= MaxImages
    OBVIOUS
  <2>1. {i \in images : i[1] = v} = {}
    OBVIOUS
  <2>2. Cardinality({i \in images : i[1] = v}) = 0
    BY <2>1, FS_EmptySet
  <2> QED BY <2>2
<1>3. store \in [deleted : BOOLEAN, approved : BOOLEAN]
  OBVIOUS
<1>4. /\ product \in [Range(Parent) -> Catalogue!Statuses]
      /\ variant \in [(DOMAIN Parent) -> Catalogue!Statuses]
      /\ inventory \in [(DOMAIN Parent) -> Catalogue!Statuses]
  BY DEF Catalogue!Statuses
<1>5. Catalogue!TypeOK
  BY <1>1, <1>2, <1>3, <1>4
     DEF Catalogue!TypeOK, Catalogue!Images, Catalogue!Tops
<1>6. uploads \in [(DOMAIN Parent) -> 0..MaxUploads]
  OBVIOUS
<1> QED BY <1>1, <1>5, <1>6 DEF CatalogueInv

\* What a step that leaves the images alone must do.
LEMMA CatalogueKeeps ==
  ASSUME Catalogue!CatalogueAssumption, CatalogueInv,
         UNCHANGED Catalogue!media,
         store' \in [deleted : BOOLEAN, approved : BOOLEAN],
         product' \in [Range(Parent) -> Catalogue!Statuses],
         variant' \in [(DOMAIN Parent) -> Catalogue!Statuses],
         inventory' \in [(DOMAIN Parent) -> Catalogue!Statuses],
         catalogueCall' \in [Calls -> [step : CatalogueSteps,
                                       of : Catalogue!Tops]],
         \A p \in Range(Parent) : product[p] = "live" => product'[p] = "live",
         \A v \in (DOMAIN Parent) : variant[v] = "live"
           => variant'[v] = "live",
         \A c \in Calls : catalogueCall'[c].step = "image"
           => catalogueCall'[c] = catalogueCall[c]
  PROVE  CatalogueInv'
<1>1. \A v \in (DOMAIN Parent) : Cardinality({i \in images' : i[1] = v})
        <= MaxImages
  BY DEF CatalogueInv, Catalogue!TypeOK, Catalogue!media
<1>2. Catalogue!TypeOK'
  BY <1>1 DEF CatalogueInv, Catalogue!TypeOK, Catalogue!media
<1>3. \A i \in images' : i[1] \in (DOMAIN Parent)
  BY DEF CatalogueInv, Catalogue!TypeOK, Catalogue!media, Catalogue!Images
<1>4. \A v \in (DOMAIN Parent) : Parent[v] \in Range(Parent)
  BY DEF Catalogue!CatalogueAssumption
<1>5. \A i \in images' :
         variant'[i[1]] = "live" /\ product'[Parent[i[1]]] = "live"
  BY <1>3, <1>4 DEF CatalogueInv, Catalogue!media
<1>6. ASSUME NEW c \in Calls, catalogueCall'[c].step = "image"
      PROVE  /\ catalogueCall'[c].of \in (DOMAIN Parent)
             /\ variant'[catalogueCall'[c].of] = "live"
             /\ product'[Parent[catalogueCall'[c].of]] = "live"
             /\ (Cardinality(Catalogue!ImagesOf({catalogueCall[c].of}))
                   < MaxImages)'
  <2>1. Catalogue!ImagesOf({catalogueCall[c].of})'
          = Catalogue!ImagesOf({catalogueCall[c].of})
    BY <1>6 DEF Catalogue!media, Catalogue!ImagesOf
  <2> QED BY <1>4, <1>6, <2>1 DEF CatalogueInv
<1>8. images' \subseteq files'
  BY DEF CatalogueInv, Catalogue!media
<1>9. \A c, d \in Calls :
         catalogueCall'[c].step = "image" /\ catalogueCall'[d].step = "image"
           => c = d
  BY DEF CatalogueInv
<1>10. uploads' \in [(DOMAIN Parent) -> 0..MaxUploads]
  BY DEF CatalogueInv, Catalogue!media
<1> QED BY <1>2, <1>5, <1>6, <1>8, <1>9, <1>10 DEF CatalogueInv

\* What a deletion must do: the images it leaves are some of those there, with
\* their files and what is above them, and no upload is below what goes.
LEMMA CatalogueLoses ==
  ASSUME Catalogue!CatalogueAssumption, CatalogueInv,
         UNCHANGED <<uploads, catalogueCall>>,
         store' \in [deleted : BOOLEAN, approved : BOOLEAN],
         product' \in [Range(Parent) -> Catalogue!Statuses],
         variant' \in [(DOMAIN Parent) -> Catalogue!Statuses],
         inventory' \in [(DOMAIN Parent) -> Catalogue!Statuses],
         images' \subseteq images, files' \subseteq files,
         images' \subseteq files',
         \A i \in images' :
            variant'[i[1]] = "live" /\ product'[Parent[i[1]]] = "live",
         \A c \in Calls : catalogueCall[c].step = "image" =>
            /\ variant'[catalogueCall[c].of] = "live"
            /\ product'[Parent[catalogueCall[c].of]] = "live"
  PROVE  CatalogueInv'
<1>1. ASSUME NEW v \in (DOMAIN Parent)
      PROVE  /\ Cardinality(Catalogue!ImagesOf({v})') \in Nat
             /\ Cardinality({i \in images' : i[1] = v})
                   = Cardinality(Catalogue!ImagesOf({v})')
             /\ Cardinality(Catalogue!ImagesOf({v})')
                  <= Cardinality(Catalogue!ImagesOf({v}))
  <2>1. Catalogue!ImagesOf({v})' = {i \in images' : i[1] \in {v}}
    BY DEF Catalogue!ImagesOf
  <2>2. Catalogue!ImagesOf({v})' \in SUBSET Catalogue!ImagesOf({v})
    BY DEF Catalogue!ImagesOf
  <2>3. IsFiniteSet(Catalogue!ImagesOf({v}))
    BY CatalogueCount DEF CatalogueInv
  <2>4. {i \in images' : i[1] = v} = Catalogue!ImagesOf({v})'
    BY <2>1
  <2> QED BY <2>2, <2>3, <2>4, FS_Subset, FS_CardinalityType
<1>2. \A v \in (DOMAIN Parent) : Cardinality({i \in images' : i[1] = v})
        <= MaxImages
  <2> SUFFICES ASSUME NEW v \in (DOMAIN Parent)
               PROVE  Cardinality({i \in images' : i[1] = v}) <= MaxImages
    OBVIOUS
  <2>1. Cardinality(Catalogue!ImagesOf({v})) <= MaxImages
    BY CatalogueCount DEF CatalogueInv, Catalogue!TypeOK
  <2>2. Cardinality(Catalogue!ImagesOf({v})) \in Nat
    BY CatalogueCount DEF CatalogueInv
  <2> DEFINE old == Cardinality(Catalogue!ImagesOf({v}))
             new == Cardinality(Catalogue!ImagesOf({v})')
  <2>3. old \in Nat /\ new \in Nat /\ new <= old /\ old <= MaxImages
    BY <1>1, <2>1, <2>2
  <2>4. Cardinality({i \in images' : i[1] = v}) = new
    BY <1>1
  <2> HIDE DEF old, new
  <2>5. new <= MaxImages
    BY <2>3 DEF Catalogue!CatalogueAssumption
  <2> QED BY <2>4, <2>5
<1>3. Catalogue!TypeOK'
  <2>1. images' \union files'
          \subseteq {i \in Catalogue!Images : i[2] <= uploads'[i[1]]}
    BY DEF CatalogueInv, Catalogue!TypeOK
  <2> QED BY <1>2, <2>1 DEF CatalogueInv, Catalogue!TypeOK
<1>4. ASSUME NEW c \in Calls, catalogueCall'[c].step = "image"
      PROVE  (Cardinality(Catalogue!ImagesOf({catalogueCall[c].of}))
                < MaxImages)'
  <2>1. PICK v \in (DOMAIN Parent) : catalogueCall[c].of = v
    BY <1>4 DEF CatalogueInv
  <2>2. catalogueCall' = catalogueCall
        /\ Cardinality(Catalogue!ImagesOf({v})) < MaxImages
    BY <1>4, <2>1 DEF CatalogueInv
  <2> DEFINE old == Cardinality(Catalogue!ImagesOf({v}))
             new == Cardinality(Catalogue!ImagesOf({v})')
  <2>3. old \in Nat /\ new \in Nat /\ new <= old /\ old < MaxImages
    BY <1>1, <2>2, CatalogueCount DEF CatalogueInv
  <2>4. Catalogue!ImagesOf({catalogueCall[c].of})' = Catalogue!ImagesOf({v})'
    BY <2>1, <2>2 DEF Catalogue!ImagesOf
  <2>5. (Cardinality(Catalogue!ImagesOf({catalogueCall[c].of})) < MaxImages)'
          <=> new < MaxImages
    BY <2>4
  <2> HIDE DEF old, new
  <2>6. new < MaxImages
    BY <2>3 DEF Catalogue!CatalogueAssumption
  <2> QED BY <2>5, <2>6
<1> QED BY <1>3, <1>4 DEF CatalogueInv, Catalogue!ImagesOf

\* One more image, for which its handler found room; no other is on its way.
LEMMA CatalogueAdds ==
  ASSUME Catalogue!CatalogueAssumption, CatalogueInv,
         NEW c \in Calls, NEW v \in (DOMAIN Parent), Catalogue!AddImage(c, v)
  PROVE  CatalogueInv'
<1> DEFINE n == uploads[v] + 1
           i == <<v, n>>
<1>1. /\ catalogueCall[c].step = "image" /\ catalogueCall[c].of = v
      /\ uploads[v] < MaxUploads /\ uploads' = [uploads EXCEPT ![v] = @ + 1]
      /\ catalogueCall' = [catalogueCall EXCEPT ![c] = Catalogue!Idle]
      /\ UNCHANGED Catalogue!rows
  BY DEF Catalogue!AddImage, Catalogue!At, Catalogue!Done
<1>2. n \in 1..MaxUploads /\ uploads'[v] = n
  BY <1>1 DEF CatalogueInv, Catalogue!CatalogueAssumption
<1>3. images' = images \union {i} /\ files' = files \union {i}
  BY <1>2 DEF Catalogue!AddImage
<1>4. i \in Catalogue!Images /\ i[1] = v /\ i[2] = n
  BY <1>2 DEF Catalogue!Images
<1> HIDE DEF i, n
<1>5. uploads' \in [(DOMAIN Parent) -> 0..MaxUploads]
      /\ \A w \in (DOMAIN Parent) : uploads[w] <= uploads'[w]
  BY <1>1 DEF CatalogueInv, Catalogue!CatalogueAssumption
<1>6. images' \union files'
        \subseteq {j \in Catalogue!Images : j[2] <= uploads'[j[1]]}
  <2>1. \A j \in Catalogue!Images : j[2] \in Nat /\ j[1] \in (DOMAIN Parent)
    BY DEF Catalogue!Images
  <2>2. \A j \in Catalogue!Images : j[2] <= uploads[j[1]]
          => j[2] <= uploads'[j[1]]
    BY <2>1, <1>5 DEF CatalogueInv, Catalogue!CatalogueAssumption
  <2>3. i[2] <= uploads'[i[1]]
    BY <1>2, <1>4
  <2> QED BY <1>3, <1>4, <2>2, <2>3 DEF CatalogueInv, Catalogue!TypeOK
<1>7. \A w \in (DOMAIN Parent) : Cardinality({j \in images' : j[1] = w})
        <= MaxImages
  <2> SUFFICES ASSUME NEW w \in (DOMAIN Parent)
               PROVE  Cardinality({j \in images' : j[1] = w}) <= MaxImages
    OBVIOUS
  <2>1. CASE w = v
    <3>1. {j \in images' : j[1] = w} = Catalogue!ImagesOf({v}) \union {i}
      BY <1>3, <1>4, <2>1 DEF Catalogue!ImagesOf
    <3> DEFINE S == Catalogue!ImagesOf({v})
    <3>2. /\ IsFiniteSet(S) /\ Cardinality(S) \in Nat
          /\ Cardinality(S) < MaxImages
      BY <1>1, CatalogueCount DEF CatalogueInv
    <3> HIDE DEF S
    <3>3. Cardinality(S \union {i}) =
             IF i \in S THEN Cardinality(S) ELSE Cardinality(S) + 1
      BY <3>2, FS_AddElement
    <3>4. Cardinality(S \union {i}) <= MaxImages
      BY <3>2, <3>3 DEF Catalogue!CatalogueAssumption
    <3> QED BY <3>1, <3>4 DEF S
  <2>2. CASE w # v
    <3>1. {j \in images' : j[1] = w} = {j \in images : j[1] = w}
      BY <1>3, <1>4, <2>2
    <3> QED BY <3>1 DEF CatalogueInv, Catalogue!TypeOK
  <2> QED BY <2>1, <2>2
<1>8. catalogueCall' \in [Calls -> [step : CatalogueSteps,
                                    of : Catalogue!Tops]]
  BY <1>1 DEF CatalogueInv, Catalogue!Idle, CatalogueSteps, Catalogue!Tops
<1>9. \A d \in Calls : catalogueCall'[d].step # "image"
  BY <1>1 DEF CatalogueInv, Catalogue!Idle
<1>10. Catalogue!TypeOK'
  BY <1>1, <1>6, <1>7, <1>8, <1>9
     DEF CatalogueInv, Catalogue!TypeOK, Catalogue!rows
<1>11. \A j \in images' : variant'[j[1]] = "live"
                          /\ product'[Parent[j[1]]] = "live"
  BY <1>1, <1>3, <1>4 DEF CatalogueInv, Catalogue!rows
<1> QED BY <1>3, <1>5, <1>8, <1>9, <1>10, <1>11 DEF CatalogueInv

\* What deleting does to a status: some of what was live is deleted.
LEMMA CatalogueDeleted ==
  ASSUME NEW X, NEW f \in [X -> Catalogue!Statuses], NEW s
  PROVE  /\ Catalogue!DeletedFrom(f, s) \in [X -> Catalogue!Statuses]
         /\ \A x \in X : Catalogue!DeletedFrom(f, s)[x] = "live" <=>
                            f[x] = "live" /\ x \notin s
         /\ \A x \in X : x \notin s => Catalogue!DeletedFrom(f, s)[x] = f[x]
BY DEF Catalogue!DeletedFrom, Catalogue!Statuses

LEMMA CatalogueStep ==
  ASSUME Catalogue!CatalogueAssumption
  PROVE  CatalogueInv /\ [Catalogue!Next]_Catalogue!vars => CatalogueInv'
<1> SUFFICES ASSUME CatalogueInv, [Catalogue!Next]_Catalogue!vars
             PROVE  CatalogueInv'
  OBVIOUS
<1>0. /\ store \in [deleted : BOOLEAN, approved : BOOLEAN]
      /\ product \in [Range(Parent) -> Catalogue!Statuses]
      /\ variant \in [(DOMAIN Parent) -> Catalogue!Statuses]
      /\ inventory \in [(DOMAIN Parent) -> Catalogue!Statuses]
      /\ catalogueCall \in [Calls -> [step : CatalogueSteps,
                                      of : Catalogue!Tops]]
  BY DEF CatalogueInv, Catalogue!TypeOK
<1>1. ASSUME NEW c \in Calls,
             catalogueCall' = [catalogueCall EXCEPT ![c] = Catalogue!Idle]
      PROVE  /\ catalogueCall' \in [Calls -> [step : CatalogueSteps,
                                              of : Catalogue!Tops]]
             /\ \A d \in Calls : catalogueCall'[d].step = "image"
                  => catalogueCall'[d] = catalogueCall[d]
  BY <1>0, <1>1 DEF Catalogue!Idle, CatalogueSteps, Catalogue!Tops
<1>2. ASSUME NEW c \in Calls, NEW step \in CatalogueSteps \ {"image"},
             NEW of \in Catalogue!Tops, Catalogue!Goto(c, step, of)
      PROVE  CatalogueInv'
  <2>1. /\ catalogueCall' \in [Calls -> [step : CatalogueSteps,
                                         of : Catalogue!Tops]]
        /\ \A d \in Calls : catalogueCall'[d].step = "image"
             => catalogueCall'[d] = catalogueCall[d]
    BY <1>0, <1>2 DEF Catalogue!Goto
  <2>2. UNCHANGED <<Catalogue!rows, Catalogue!media>>
    BY <1>2 DEF Catalogue!Goto
  <2> QED BY <1>0, <2>1, <2>2, CatalogueKeeps DEF Catalogue!rows
<1>3. ASSUME NEW c \in Calls, NEW p \in Range(Parent),
             Catalogue!CheckProduct(c, p)
      PROVE  CatalogueInv'
  BY <1>2, <1>3 DEF Catalogue!CheckProduct, CatalogueSteps, Catalogue!Tops
<1>4. ASSUME NEW c \in Calls, NEW p \in Range(Parent),
             Catalogue!InsertProduct(c, p)
      PROVE  CatalogueInv'
  <2>1. /\ product[p] = "none" /\ product' = [product EXCEPT ![p] = "live"]
        /\ catalogueCall' = [catalogueCall EXCEPT ![c] = Catalogue!Idle]
        /\ UNCHANGED <<store, variant, inventory, Catalogue!media>>
    BY <1>4 DEF Catalogue!InsertProduct, Catalogue!Done
  <2>2. /\ product' \in [Range(Parent) -> Catalogue!Statuses]
        /\ \A q \in Range(Parent) : product[q] = "live" => product'[q] = "live"
    BY <1>0, <2>1 DEF Catalogue!Statuses
  <2> QED BY <1>0, <1>1, <2>1, <2>2, CatalogueKeeps
<1>5. ASSUME NEW c \in Calls, NEW v \in (DOMAIN Parent),
             Catalogue!CheckVariant(c, v)
      PROVE  CatalogueInv'
  BY <1>2, <1>5 DEF Catalogue!CheckVariant, CatalogueSteps, Catalogue!Tops
<1>6. ASSUME NEW c \in Calls, NEW v \in (DOMAIN Parent),
             Catalogue!InsertVariant(c, v)
      PROVE  CatalogueInv'
  <2>1. /\ variant[v] = "none" /\ variant' = [variant EXCEPT ![v] = "live"]
        /\ catalogueCall' = [catalogueCall EXCEPT ![c] = Catalogue!Idle]
        /\ UNCHANGED <<store, product, inventory, Catalogue!media>>
    BY <1>6 DEF Catalogue!InsertVariant, Catalogue!Done
  <2>2. /\ variant' \in [(DOMAIN Parent) -> Catalogue!Statuses]
        /\ \A w \in (DOMAIN Parent) : variant[w] = "live"
             => variant'[w] = "live"
    BY <1>0, <2>1 DEF Catalogue!Statuses
  <2> QED BY <1>0, <1>1, <2>1, <2>2, CatalogueKeeps
<1>7. ASSUME NEW c \in Calls, NEW v \in (DOMAIN Parent),
             Catalogue!CheckInventory(c, v)
      PROVE  CatalogueInv'
  BY <1>2, <1>7 DEF Catalogue!CheckInventory, CatalogueSteps, Catalogue!Tops
<1>8. ASSUME NEW c \in Calls, NEW v \in (DOMAIN Parent),
             Catalogue!InsertInventory(c, v)
      PROVE  CatalogueInv'
  <2>1. /\ inventory' = [inventory EXCEPT ![v] = "live"]
        /\ catalogueCall' = [catalogueCall EXCEPT ![c] = Catalogue!Idle]
        /\ UNCHANGED <<store, product, variant, Catalogue!media>>
    BY <1>8 DEF Catalogue!InsertInventory, Catalogue!Done
  <2>2. inventory' \in [(DOMAIN Parent) -> Catalogue!Statuses]
    BY <1>0, <2>1 DEF Catalogue!Statuses
  <2> QED BY <1>0, <1>1, <2>1, <2>2, CatalogueKeeps
<1>9. ASSUME NEW c \in Calls, NEW v \in (DOMAIN Parent),
             Catalogue!CountImages(c, v)
      PROVE  CatalogueInv'
  <2>1. /\ variant[v] = "live" /\ product[Parent[v]] = "live"
        /\ \A w \in (DOMAIN Parent) : ~Catalogue!Locked(w)
        /\ Cardinality(Catalogue!ImagesOf({v})) < MaxImages
        /\ catalogueCall' = [catalogueCall EXCEPT ![c] = [step |-> "image",
                                                          of |-> v]]
        /\ UNCHANGED <<Catalogue!rows, Catalogue!media>>
    BY <1>9 DEF Catalogue!CountImages, Catalogue!Hangs, Catalogue!Goto
  <2>2. \A d \in Calls : catalogueCall[d].step # "image"
    BY <1>0, <2>1 DEF Catalogue!Locked, Catalogue!At, CatalogueInv
  <2>3. catalogueCall' \in [Calls -> [step : CatalogueSteps,
                                      of : Catalogue!Tops]]
    BY <1>0, <2>1 DEF CatalogueSteps, Catalogue!Tops
  <2>4. \A d \in Calls : catalogueCall'[d].step = "image" => d = c
          /\ catalogueCall'[d].of = v
    BY <1>0, <2>1, <2>2
  <2>5. Catalogue!TypeOK'
    BY <2>1, <2>3, <2>4
       DEF CatalogueInv, Catalogue!TypeOK, Catalogue!rows, Catalogue!media
  <2>6. Catalogue!ImagesOf({v})' = Catalogue!ImagesOf({v})
    BY <2>1 DEF Catalogue!media, Catalogue!ImagesOf
  <2>7. ASSUME NEW d \in Calls, catalogueCall'[d].step = "image"
        PROVE  (Cardinality(Catalogue!ImagesOf({catalogueCall[d].of}))
                  < MaxImages)'
    BY <2>1, <2>4, <2>6, <2>7
  <2> QED BY <2>1, <2>3, <2>4, <2>5, <2>7
             DEF CatalogueInv, Catalogue!rows, Catalogue!media
<1>10. ASSUME NEW c \in Calls, NEW v \in (DOMAIN Parent),
              Catalogue!AddImage(c, v)
       PROVE  CatalogueInv'
  BY <1>10, CatalogueAdds
<1>11. ASSUME NEW c \in Calls, Catalogue!CheckApproval(c) PROVE CatalogueInv'
  BY <1>2, <1>11 DEF Catalogue!CheckApproval, CatalogueSteps, Catalogue!Tops
<1>12. ASSUME NEW c \in Calls, Catalogue!ApproveStore(c) PROVE CatalogueInv'
  <2>1. /\ store' = [store EXCEPT !.approved = TRUE]
        /\ catalogueCall' = [catalogueCall EXCEPT ![c] = Catalogue!Idle]
        /\ UNCHANGED <<product, variant, inventory, Catalogue!media>>
    BY <1>12 DEF Catalogue!ApproveStore, Catalogue!Done
  <2> QED BY <1>0, <1>1, <2>1, CatalogueKeeps
<1>13. ASSUME NEW c \in Calls, Catalogue!Fail(c) PROVE CatalogueInv'
  <2>1. /\ catalogueCall' = [catalogueCall EXCEPT ![c] = Catalogue!Idle]
        /\ UNCHANGED <<Catalogue!rows, Catalogue!media>>
    BY <1>13 DEF Catalogue!Fail, Catalogue!Done
  <2> QED BY <1>0, <1>1, <2>1, CatalogueKeeps DEF Catalogue!rows
<1>14. \A j \in images : j[1] \in (DOMAIN Parent)
  BY DEF CatalogueInv, Catalogue!TypeOK, Catalogue!Images
<1>15. \A v \in (DOMAIN Parent) : Parent[v] \in Range(Parent)
  BY DEF Catalogue!CatalogueAssumption
<1>16. \A c \in Calls : catalogueCall[c].step = "image" =>
          catalogueCall[c].of \in (DOMAIN Parent)
          /\ Catalogue!Locked(catalogueCall[c].of)
  BY <1>0 DEF CatalogueInv, Catalogue!Locked, Catalogue!At
<1>17. ASSUME NEW v \in (DOMAIN Parent), Catalogue!DeleteVariant(v)
       PROVE  CatalogueInv'
  <2>1. /\ variant[v] = "live" /\ ~Catalogue!Locked(v)
        /\ variant' = [variant EXCEPT ![v] = "deleted"]
        /\ inventory' = Catalogue!DeletedFrom(inventory, {v})
        /\ images' = images \ Catalogue!ImagesOf({v})
        /\ files' = files \ Catalogue!ImagesOf({v})
        /\ UNCHANGED <<store, product, uploads, catalogueCall>>
    BY <1>17 DEF Catalogue!DeleteVariant
  <2>2. /\ inventory' \in [(DOMAIN Parent) -> Catalogue!Statuses]
        /\ variant' \in [(DOMAIN Parent) -> Catalogue!Statuses]
    BY <1>0, <2>1, CatalogueDeleted DEF Catalogue!Statuses
  <2>3. \A j \in images' : j \in images /\ j[1] # v /\ j[1] \in (DOMAIN Parent)
    BY <1>14, <2>1 DEF Catalogue!ImagesOf
  <2>4. \A j \in images' :
           variant'[j[1]] = "live" /\ product'[Parent[j[1]]] = "live"
    BY <1>0, <2>1, <2>3 DEF CatalogueInv
  <2>5. \A c \in Calls : catalogueCall[c].step = "image" =>
           /\ variant'[catalogueCall[c].of] = "live"
           /\ product'[Parent[catalogueCall[c].of]] = "live"
    BY <1>0, <1>16, <2>1 DEF CatalogueInv
  <2>6. images' \subseteq images /\ files' \subseteq files
        /\ images' \subseteq files'
    BY <2>1 DEF CatalogueInv
  <2> QED BY <1>0, <2>1, <2>2, <2>4, <2>5, <2>6, CatalogueLoses
<1>18. ASSUME NEW p \in Range(Parent), Catalogue!DeleteProduct(p)
       PROVE  CatalogueInv'
  <2> DEFINE gone == {v \in Catalogue!Children(p) : variant[v] = "live"}
  <2>1. /\ product[p] = "live" /\ \A v \in Catalogue!Children(p) :
             ~Catalogue!Locked(v)
        /\ product' = [product EXCEPT ![p] = "deleted"]
        /\ variant' = Catalogue!DeletedFrom(variant, gone)
        /\ inventory' = Catalogue!DeletedFrom(inventory, gone)
        /\ images' = images \ Catalogue!ImagesOf(gone)
        /\ UNCHANGED <<store, uploads, catalogueCall>>
    BY <1>18 DEF Catalogue!DeleteProduct
  <2>2. files' = files
        \/ \E last \in Catalogue!Children(p) :
             files' = files \ Catalogue!ImagesOf({last})
    BY <1>18 DEF Catalogue!DeleteProduct
  <2>3. \A v \in (DOMAIN Parent) : v \in gone <=> Parent[v] = p
          /\ variant[v] = "live"
    BY DEF Catalogue!Children
  <2>4. \A v \in (DOMAIN Parent) : v \in Catalogue!Children(p)
          <=> Parent[v] = p
    BY DEF Catalogue!Children
  <2> HIDE DEF gone
  <2>5. /\ product' \in [Range(Parent) -> Catalogue!Statuses]
        /\ inventory' \in [(DOMAIN Parent) -> Catalogue!Statuses]
        /\ variant' \in [(DOMAIN Parent) -> Catalogue!Statuses]
        /\ \A v \in (DOMAIN Parent) : v \notin gone => variant'[v] = variant[v]
    BY <1>0, <2>1, CatalogueDeleted DEF Catalogue!Statuses
  <2>6. \A j \in images' : /\ j \in images /\ j[1] \in (DOMAIN Parent)
                           /\ j[1] \notin gone /\ Parent[j[1]] # p
    BY <1>14, <2>1, <2>3 DEF Catalogue!ImagesOf, CatalogueInv
  <2>7. \A j \in images' :
           variant'[j[1]] = "live" /\ product'[Parent[j[1]]] = "live"
    BY <1>0, <1>15, <2>1, <2>5, <2>6 DEF CatalogueInv
  <2>8. \A c \in Calls : catalogueCall[c].step = "image" =>
           /\ variant'[catalogueCall[c].of] = "live"
           /\ product'[Parent[catalogueCall[c].of]] = "live"
    <3> SUFFICES ASSUME NEW c \in Calls, catalogueCall[c].step = "image"
                 PROVE  /\ variant'[catalogueCall[c].of] = "live"
                        /\ product'[Parent[catalogueCall[c].of]] = "live"
      OBVIOUS
    <3>1. /\ catalogueCall[c].of \in (DOMAIN Parent)
          /\ variant[catalogueCall[c].of] = "live"
          /\ product[Parent[catalogueCall[c].of]] = "live"
      BY DEF CatalogueInv
    <3>2. Parent[catalogueCall[c].of] # p
          /\ Parent[catalogueCall[c].of] \in Range(Parent)
      BY <1>15, <1>16, <2>1, <2>4, <3>1
    <3>3. catalogueCall[c].of \notin gone
      BY <2>3, <3>1, <3>2
    <3> QED BY <1>0, <2>1, <2>5, <3>1, <3>2, <3>3
  <2>9. images' \subseteq images /\ files' \subseteq files
    BY <2>1, <2>2
  <2>10. images' \subseteq files'
    <3> SUFFICES ASSUME NEW j \in images' PROVE j \in files'
      OBVIOUS
    <3>1. j \in files
      BY <2>6 DEF CatalogueInv
    <3>2. \A last \in Catalogue!Children(p) :
            j \notin Catalogue!ImagesOf({last})
      BY <2>4, <2>6 DEF Catalogue!ImagesOf, Catalogue!Children
    <3> QED BY <2>2, <3>1, <3>2
  <2> QED BY <1>0, <2>1, <2>5, <2>7, <2>8, <2>9, <2>10, CatalogueLoses
<1>19. ASSUME Catalogue!RemoveStore PROVE CatalogueInv'
  <2> DEFINE gone == {v \in (DOMAIN Parent) : variant[v] = "live"}
  <2>1. /\ ~store.deleted /\ \A v \in (DOMAIN Parent) : ~Catalogue!Locked(v)
        /\ store' = [deleted |-> TRUE, approved |-> FALSE]
        /\ product' = Catalogue!DeletedFrom(product, Range(Parent))
        /\ inventory' = Catalogue!DeletedFrom(inventory, (DOMAIN Parent))
        /\ files' = files \ images
        /\ UNCHANGED <<uploads, catalogueCall>>
    BY <1>19 DEF Catalogue!RemoveStore
  <2>2. \/ product' = product /\ UNCHANGED <<variant, images>>
        \/ /\ variant' = Catalogue!DeletedFrom(variant, gone)
           /\ images' = images \ Catalogue!ImagesOf(gone)
    BY <1>19 DEF Catalogue!RemoveStore
  <2>3. images' = {}
    <3>1. CASE product' = product /\ UNCHANGED <<variant, images>>
      <4>1. \A q \in Range(Parent) : product[q] # "live"
        <5>1. \A q \in Range(Parent) :
                Catalogue!DeletedFrom(product, Range(Parent))[q] # "live"
          BY <1>0, CatalogueDeleted
        <5> QED BY <2>1, <3>1, <5>1
      <4> QED BY <1>14, <1>15, <3>1, <4>1 DEF CatalogueInv
    <3>2. CASE images' = images \ Catalogue!ImagesOf(gone)
      BY <1>14, <3>2 DEF Catalogue!ImagesOf, CatalogueInv
    <3> QED BY <2>2, <3>1, <3>2
  <2> HIDE DEF gone
  <2>4. /\ store' \in [deleted : BOOLEAN, approved : BOOLEAN]
        /\ product' \in [Range(Parent) -> Catalogue!Statuses]
        /\ inventory' \in [(DOMAIN Parent) -> Catalogue!Statuses]
        /\ variant' \in [(DOMAIN Parent) -> Catalogue!Statuses]
    BY <1>0, <2>1, <2>2, CatalogueDeleted
  <2>5. \A c \in Calls : catalogueCall[c].step # "image"
    BY <1>16, <2>1
  <2> QED BY <2>1, <2>3, <2>4, <2>5, CatalogueLoses
<1>20. ASSUME NEW i \in Catalogue!Images, Catalogue!DeleteImage(i)
       PROVE  CatalogueInv'
  <2>1. /\ images' = images \ {i} /\ files' = files \ {i}
        /\ UNCHANGED <<Catalogue!rows, uploads, catalogueCall>>
    BY <1>20 DEF Catalogue!DeleteImage
  <2> QED BY <1>0, <2>1, CatalogueLoses DEF CatalogueInv, Catalogue!rows
<1>21. CASE UNCHANGED Catalogue!vars
  BY <1>0, <1>21, CatalogueKeeps DEF Catalogue!vars, Catalogue!rows
<1> QED BY <1>3, <1>4, <1>5, <1>6, <1>7, <1>8, <1>9, <1>10, <1>11, <1>12,
           <1>13, <1>17, <1>18, <1>19, <1>20, <1>21 DEF Catalogue!Next

\* Of handlers served in turn at most one is under way, and what it found is
\* so still when it commits.
CatalogueTurnInv ==
    /\ CatalogueInv /\ Catalogue!LiveUnderLive /\ Catalogue!ApprovedIsThere
    /\ \A c, d \in Calls : catalogueCall[c] # Catalogue!Idle
         /\ catalogueCall[d] # Catalogue!Idle => c = d
    /\ \A c \in Calls :
          /\ catalogueCall[c].step = "idle"
               => catalogueCall[c] = Catalogue!Idle
          /\ \A p \in Range(Parent) : Catalogue!At(c, "product", p)
               => ~store.deleted
          /\ \A v \in (DOMAIN Parent) :
                /\ Catalogue!At(c, "variant", v) => product[Parent[v]] = "live"
                /\ Catalogue!At(c, "inventory", v) => variant[v] = "live"
          /\ Catalogue!At(c, "approve", "store") => ~store.deleted

LEMMA CatalogueTurnInit ==
  ASSUME Catalogue!CatalogueAssumption
  PROVE  Catalogue!Init => CatalogueTurnInv
<1> SUFFICES ASSUME Catalogue!Init PROVE CatalogueTurnInv
  OBVIOUS
<1>1. CatalogueInv
  BY CatalogueInit
<1>2. \A c \in Calls : catalogueCall[c] = Catalogue!Idle
  BY DEF Catalogue!Init
<1>3. Catalogue!LiveUnderLive /\ Catalogue!ApprovedIsThere
  BY DEF Catalogue!Init, Catalogue!LiveUnderLive, Catalogue!ApprovedIsThere
<1> QED BY <1>1, <1>2, <1>3 DEF CatalogueTurnInv, Catalogue!At, Catalogue!Idle

LEMMA CatalogueTurnStep ==
  ASSUME Catalogue!CatalogueAssumption
  PROVE  CatalogueTurnInv
         /\ [Catalogue!Next /\ Catalogue!InTurn]_Catalogue!vars
              => CatalogueTurnInv'
<1> SUFFICES ASSUME CatalogueTurnInv,
                    [Catalogue!Next /\ Catalogue!InTurn]_Catalogue!vars
             PROVE  CatalogueTurnInv'
  OBVIOUS
<1>0. /\ store \in [deleted : BOOLEAN, approved : BOOLEAN]
      /\ product \in [Range(Parent) -> Catalogue!Statuses]
      /\ variant \in [(DOMAIN Parent) -> Catalogue!Statuses]
      /\ inventory \in [(DOMAIN Parent) -> Catalogue!Statuses]
      /\ catalogueCall \in [Calls -> [step : CatalogueSteps,
                                      of : Catalogue!Tops]]
      /\ \A v \in (DOMAIN Parent) : Parent[v] \in Range(Parent)
  BY DEF CatalogueTurnInv, CatalogueInv, Catalogue!TypeOK,
         Catalogue!CatalogueAssumption
<1>1. CatalogueInv'
  BY CatalogueStep DEF CatalogueTurnInv
<1>2. ASSUME NEW c \in Calls, NEW step, NEW of, Catalogue!Goto(c, step, of),
             Catalogue!InTurn,
             step # "idle",
             step = "product" => ~store.deleted,
             \A v \in (DOMAIN Parent) : of = v =>
                /\ step = "variant" => product[Parent[v]] = "live"
                /\ step = "inventory" => variant[v] = "live",
             step = "approve" => ~store.deleted
      PROVE  CatalogueTurnInv'
  <2>1. /\ catalogueCall[c].step = "idle"
        /\ catalogueCall' = [catalogueCall EXCEPT ![c] = [step |-> step,
                                                          of |-> of]]
        /\ UNCHANGED <<Catalogue!rows, Catalogue!media>>
    BY <1>2 DEF Catalogue!Goto
  <2>2. \A d \in Calls : d # c => catalogueCall'[d] = catalogueCall[d]
    BY <1>0, <2>1
  <2>3. \A d \in Calls : catalogueCall[d] = Catalogue!Idle
    BY <2>1, <2>2, <1>2 DEF CatalogueTurnInv, Catalogue!InTurn
  <2>4. catalogueCall'[c] = [step |-> step, of |-> of]
    BY <1>0, <2>1
  <2>5. Catalogue!LiveUnderLive' /\ Catalogue!ApprovedIsThere'
    BY <2>1
       DEF CatalogueTurnInv, Catalogue!LiveUnderLive,
           Catalogue!ApprovedIsThere, Catalogue!rows
  <2>6. \A d, e \in Calls : catalogueCall'[d] # Catalogue!Idle
          /\ catalogueCall'[e] # Catalogue!Idle => d = e
    BY <2>2, <2>3
  <2>7. \A d \in Calls : d # c => catalogueCall'[d] = Catalogue!Idle
    BY <2>2, <2>3
  <2>8. \A d \in Calls :
          /\ catalogueCall'[d].step = "idle"
               => catalogueCall'[d] = Catalogue!Idle
          /\ \A p \in Range(Parent) : Catalogue!At(d, "product", p)'
               => ~store'.deleted
          /\ \A v \in (DOMAIN Parent) :
                /\ Catalogue!At(d, "variant", v)'
                     => product'[Parent[v]] = "live"
                /\ Catalogue!At(d, "inventory", v)' => variant'[v] = "live"
          /\ Catalogue!At(d, "approve", "store")' => ~store'.deleted
    <3> SUFFICES ASSUME NEW d \in Calls
                 PROVE
          /\ catalogueCall'[d].step = "idle"
               => catalogueCall'[d] = Catalogue!Idle
          /\ \A p \in Range(Parent) : Catalogue!At(d, "product", p)'
               => ~store'.deleted
          /\ \A v \in (DOMAIN Parent) :
                /\ Catalogue!At(d, "variant", v)'
                     => product'[Parent[v]] = "live"
                /\ Catalogue!At(d, "inventory", v)' => variant'[v] = "live"
          /\ Catalogue!At(d, "approve", "store")' => ~store'.deleted
      OBVIOUS
    <3>1. CASE d = c
      BY <1>2, <2>1, <2>4, <3>1 DEF Catalogue!At, Catalogue!rows
    <3>2. CASE d # c
      BY <2>7, <3>2 DEF Catalogue!At, Catalogue!Idle
    <3> QED BY <3>1, <3>2
  <2> QED BY <1>1, <2>5, <2>6, <2>8 DEF CatalogueTurnInv
\* A handler that ends, or a deletion: nothing is under way any more.
<1>3. ASSUME \A d \in Calls : catalogueCall'[d] = Catalogue!Idle,
             Catalogue!LiveUnderLive', Catalogue!ApprovedIsThere'
      PROVE  CatalogueTurnInv'
  BY <1>1, <1>3 DEF CatalogueTurnInv, Catalogue!At, Catalogue!Idle
<1>4. ASSUME NEW c \in Calls, Catalogue!Done(c), catalogueCall[c].step # "idle"
      PROVE  \A d \in Calls : catalogueCall'[d] = Catalogue!Idle
  BY <1>0, <1>4 DEF Catalogue!Done, Catalogue!Idle, CatalogueTurnInv
<1>5. ASSUME Catalogue!InTurn, catalogueCall' = catalogueCall
      PROVE  \A d \in Calls : catalogueCall[d] = Catalogue!Idle
               /\ catalogueCall'[d] = Catalogue!Idle
  BY <1>5 DEF Catalogue!InTurn
<1>6. ASSUME NEW c \in Calls, NEW p \in Range(Parent),
             Catalogue!CheckProduct(c, p), Catalogue!InTurn
      PROVE  CatalogueTurnInv'
  <2>1. Catalogue!Goto(c, "product", p) /\ ~store.deleted
    BY <1>6 DEF Catalogue!CheckProduct, Catalogue!Hangs
  <2> QED BY <1>2, <1>6, <2>1
<1>7. ASSUME NEW c \in Calls, NEW p \in Range(Parent),
             Catalogue!InsertProduct(c, p)
      PROVE  CatalogueTurnInv'
  <2>1. /\ Catalogue!At(c, "product", p) /\ Catalogue!Done(c)
        /\ catalogueCall[c].step # "idle"
        /\ product' = [product EXCEPT ![p] = "live"]
        /\ UNCHANGED <<store, variant, inventory, Catalogue!media>>
    BY <1>7 DEF Catalogue!InsertProduct, Catalogue!At
  <2>2. ~store.deleted
    BY <2>1 DEF CatalogueTurnInv
  <2>3. Catalogue!LiveUnderLive' /\ Catalogue!ApprovedIsThere'
    BY <1>0, <2>1, <2>2
       DEF CatalogueTurnInv, Catalogue!LiveUnderLive, Catalogue!ApprovedIsThere
  <2> QED BY <1>3, <1>4, <2>1, <2>3
<1>8. ASSUME NEW c \in Calls, NEW v \in (DOMAIN Parent),
             Catalogue!CheckVariant(c, v), Catalogue!InTurn
      PROVE  CatalogueTurnInv'
  <2>1. Catalogue!Goto(c, "variant", v) /\ product[Parent[v]] = "live"
    BY <1>8 DEF Catalogue!CheckVariant, Catalogue!Hangs
  <2> QED BY <1>2, <1>8, <2>1
<1>9. ASSUME NEW c \in Calls, NEW v \in (DOMAIN Parent),
             Catalogue!InsertVariant(c, v)
      PROVE  CatalogueTurnInv'
  <2>1. /\ Catalogue!At(c, "variant", v) /\ Catalogue!Done(c)
        /\ catalogueCall[c].step # "idle"
        /\ variant' = [variant EXCEPT ![v] = "live"]
        /\ UNCHANGED <<store, product, inventory, Catalogue!media>>
    BY <1>9 DEF Catalogue!InsertVariant, Catalogue!At
  <2>2. product[Parent[v]] = "live"
    BY <2>1 DEF CatalogueTurnInv
  <2>3. Catalogue!LiveUnderLive' /\ Catalogue!ApprovedIsThere'
    BY <1>0, <2>1, <2>2
       DEF CatalogueTurnInv, Catalogue!LiveUnderLive, Catalogue!ApprovedIsThere
  <2> QED BY <1>3, <1>4, <2>1, <2>3
<1>10. ASSUME NEW c \in Calls, NEW v \in (DOMAIN Parent),
              Catalogue!CheckInventory(c, v), Catalogue!InTurn
       PROVE  CatalogueTurnInv'
  <2>1. Catalogue!Goto(c, "inventory", v) /\ variant[v] = "live"
    BY <1>10 DEF Catalogue!CheckInventory
  <2> QED BY <1>2, <1>10, <2>1
<1>11. ASSUME NEW c \in Calls, NEW v \in (DOMAIN Parent),
              Catalogue!InsertInventory(c, v)
       PROVE  CatalogueTurnInv'
  <2>1. /\ Catalogue!At(c, "inventory", v) /\ Catalogue!Done(c)
        /\ catalogueCall[c].step # "idle"
        /\ inventory' = [inventory EXCEPT ![v] = "live"]
        /\ UNCHANGED <<store, product, variant, Catalogue!media>>
    BY <1>11 DEF Catalogue!InsertInventory, Catalogue!At
  <2>2. variant[v] = "live"
    BY <2>1 DEF CatalogueTurnInv
  <2>3. Catalogue!LiveUnderLive' /\ Catalogue!ApprovedIsThere'
    BY <1>0, <2>1, <2>2
       DEF CatalogueTurnInv, Catalogue!LiveUnderLive, Catalogue!ApprovedIsThere
  <2> QED BY <1>3, <1>4, <2>1, <2>3
<1>12. ASSUME NEW c \in Calls, NEW v \in (DOMAIN Parent),
              Catalogue!CountImages(c, v), Catalogue!InTurn
       PROVE  CatalogueTurnInv'
  <2>1. Catalogue!Goto(c, "image", v)
    BY <1>12 DEF Catalogue!CountImages
  <2> QED BY <1>2, <1>12, <2>1
<1>13. ASSUME NEW c \in Calls, NEW v \in (DOMAIN Parent),
              Catalogue!AddImage(c, v)
       PROVE  CatalogueTurnInv'
  <2>1. Catalogue!Done(c) /\ catalogueCall[c].step # "idle"
        /\ UNCHANGED Catalogue!rows
    BY <1>13 DEF Catalogue!AddImage, Catalogue!At
  <2>2. Catalogue!LiveUnderLive' /\ Catalogue!ApprovedIsThere'
    BY <2>1
       DEF CatalogueTurnInv, Catalogue!LiveUnderLive,
           Catalogue!ApprovedIsThere, Catalogue!rows
  <2> QED BY <1>3, <1>4, <2>1, <2>2
<1>14. ASSUME NEW c \in Calls, Catalogue!CheckApproval(c), Catalogue!InTurn
       PROVE  CatalogueTurnInv'
  <2>1. Catalogue!Goto(c, "approve", "store") /\ ~store.deleted
    BY <1>14 DEF Catalogue!CheckApproval
  <2> QED BY <1>2, <1>14, <2>1
<1>15. ASSUME NEW c \in Calls, Catalogue!ApproveStore(c)
       PROVE  CatalogueTurnInv'
  <2>1. /\ Catalogue!At(c, "approve", "store") /\ Catalogue!Done(c)
        /\ catalogueCall[c].step # "idle"
        /\ store' = [store EXCEPT !.approved = TRUE]
        /\ UNCHANGED <<product, variant, inventory, Catalogue!media>>
    BY <1>15 DEF Catalogue!ApproveStore, Catalogue!At
  <2>2. ~store.deleted
    BY <2>1 DEF CatalogueTurnInv
  <2>3. Catalogue!LiveUnderLive' /\ Catalogue!ApprovedIsThere'
    BY <1>0, <2>1, <2>2
       DEF CatalogueTurnInv, Catalogue!LiveUnderLive, Catalogue!ApprovedIsThere
  <2> QED BY <1>3, <1>4, <2>1, <2>3
<1>16. ASSUME NEW c \in Calls, Catalogue!Fail(c) PROVE CatalogueTurnInv'
  <2>1. Catalogue!Done(c) /\ catalogueCall[c].step # "idle"
        /\ UNCHANGED Catalogue!rows
    BY <1>16 DEF Catalogue!Fail
  <2>2. Catalogue!LiveUnderLive' /\ Catalogue!ApprovedIsThere'
    BY <2>1
       DEF CatalogueTurnInv, Catalogue!LiveUnderLive,
           Catalogue!ApprovedIsThere, Catalogue!rows
  <2> QED BY <1>3, <1>4, <2>1, <2>2
<1>17. ASSUME NEW v \in (DOMAIN Parent), Catalogue!DeleteVariant(v),
              Catalogue!InTurn
       PROVE  CatalogueTurnInv'
  <2>1. /\ variant' = [variant EXCEPT ![v] = "deleted"]
        /\ inventory' = Catalogue!DeletedFrom(inventory, {v})
        /\ UNCHANGED <<store, product, catalogueCall>>
    BY <1>17 DEF Catalogue!DeleteVariant
  <2>2. Catalogue!LiveUnderLive' /\ Catalogue!ApprovedIsThere'
    BY <1>0, <2>1, CatalogueDeleted
       DEF CatalogueTurnInv, Catalogue!LiveUnderLive, Catalogue!ApprovedIsThere
  <2> QED BY <1>3, <1>5, <1>17, <2>1, <2>2
<1>18. ASSUME NEW p \in Range(Parent), Catalogue!DeleteProduct(p),
              Catalogue!InTurn
       PROVE  CatalogueTurnInv'
  <2> DEFINE gone == {v \in Catalogue!Children(p) : variant[v] = "live"}
  <2>1. /\ product' = [product EXCEPT ![p] = "deleted"]
        /\ variant' = Catalogue!DeletedFrom(variant, gone)
        /\ inventory' = Catalogue!DeletedFrom(inventory, gone)
        /\ UNCHANGED <<store, catalogueCall>>
    BY <1>18 DEF Catalogue!DeleteProduct
  <2>2. \A v \in (DOMAIN Parent) : v \in gone <=> Parent[v] = p
          /\ variant[v] = "live"
    BY DEF Catalogue!Children
  <2> HIDE DEF gone
  <2>3. /\ \A v \in (DOMAIN Parent) : variant'[v] = "live" <=>
                                  variant[v] = "live" /\ v \notin gone
        /\ \A v \in (DOMAIN Parent) : inventory'[v] = "live" <=>
                                  inventory[v] = "live" /\ v \notin gone
    BY <1>0, <2>1, CatalogueDeleted
  <2>4. Catalogue!LiveUnderLive' /\ Catalogue!ApprovedIsThere'
    BY <1>0, <2>1, <2>2, <2>3
       DEF CatalogueTurnInv, Catalogue!LiveUnderLive, Catalogue!ApprovedIsThere
  <2> QED BY <1>3, <1>5, <1>18, <2>1, <2>4
<1>19. ASSUME Catalogue!RemoveStore, Catalogue!InTurn PROVE CatalogueTurnInv'
  <2> DEFINE gone == {v \in (DOMAIN Parent) : variant[v] = "live"}
  <2>1. /\ store' = [deleted |-> TRUE, approved |-> FALSE]
        /\ product' = Catalogue!DeletedFrom(product, Range(Parent))
        /\ inventory' = Catalogue!DeletedFrom(inventory, (DOMAIN Parent))
        /\ UNCHANGED catalogueCall
    BY <1>19 DEF Catalogue!RemoveStore
  <2>2. \/ product' = product /\ variant' = variant
        \/ variant' = Catalogue!DeletedFrom(variant, gone)
    BY <1>19 DEF Catalogue!RemoveStore
  <2>3. /\ \A q \in Range(Parent) : product'[q] # "live"
        /\ \A v \in (DOMAIN Parent) : inventory'[v] # "live"
    BY <1>0, <2>1, CatalogueDeleted
  <2>4. \A v \in (DOMAIN Parent) : variant'[v] # "live"
    <3>1. CASE product' = product /\ variant' = variant
      BY <1>0, <2>3, <3>1 DEF CatalogueTurnInv, Catalogue!LiveUnderLive
    <3>2. CASE variant' = Catalogue!DeletedFrom(variant, gone)
      BY <1>0, <3>2, CatalogueDeleted
    <3> QED BY <2>2, <3>1, <3>2
  <2>5. Catalogue!LiveUnderLive' /\ Catalogue!ApprovedIsThere'
    BY <2>1, <2>3, <2>4 DEF Catalogue!LiveUnderLive, Catalogue!ApprovedIsThere
  <2> QED BY <1>3, <1>5, <1>19, <2>1, <2>5
<1>20. ASSUME NEW i \in Catalogue!Images, Catalogue!DeleteImage(i),
              Catalogue!InTurn
       PROVE  CatalogueTurnInv'
  <2>1. UNCHANGED <<Catalogue!rows, catalogueCall>>
    BY <1>20 DEF Catalogue!DeleteImage
  <2>2. Catalogue!LiveUnderLive' /\ Catalogue!ApprovedIsThere'
    BY <2>1
       DEF CatalogueTurnInv, Catalogue!LiveUnderLive,
           Catalogue!ApprovedIsThere, Catalogue!rows
  <2> QED BY <1>3, <1>5, <1>20, <2>1, <2>2
<1>21. CASE UNCHANGED Catalogue!vars
  BY <1>1, <1>21
     DEF Catalogue!vars, Catalogue!rows, CatalogueTurnInv,
         Catalogue!LiveUnderLive, Catalogue!ApprovedIsThere, Catalogue!At
<1> QED BY <1>6, <1>7, <1>8, <1>9, <1>10, <1>11, <1>12, <1>13, <1>14, <1>15,
           <1>16, <1>17, <1>18, <1>19, <1>20, <1>21 DEF Catalogue!Next

-----------------------------------------------------------------------------
(***************************************************************************)
(* Files in storage and the rows that name them.                           *)
(***************************************************************************)
USE DEF Photo!PhotoAssumption, Photo!marks

PhotoSteps == {"idle", "started", "uploaded", "written", "invalidate"}
PhotoRecords ==
  [step : PhotoSteps, kind : Photo!AllKinds,
   old : Photo!Files \union {0}, new : Photo!Files \union {0}]

PhotoTyped ==
    /\ stored \subseteq {"public", "private"} \X Photo!Files
    /\ row \in [Photo!AllKinds -> Photo!Files \union {0}]
    /\ sent \subseteq Photo!Files
    /\ leaked \subseteq Photo!Locations /\ torn \subseteq Photo!Files
    /\ used \in 0..MaxFiles /\ photoCall \in [Calls -> PhotoRecords]

(* No name is used before its upload.                                      *)
PhotoUsedNames ==
    /\ \A k \in Photo!AllKinds : row[k] <= used
    /\ \A f \in sent : f <= used
    /\ \A c \in Calls : photoCall[c].old <= used /\ photoCall[c].new <= used

(* A file belongs to one row.                                              *)
PhotoOneRow == \A k \in Photo!AllKinds : \A l \in Photo!AllKinds :
    row[k] = row[l] /\ row[k] # 0 => k = l

(* A file that has been uploaded and not yet written is known to its       *)
(* handler alone.                                                          *)
PhotoUnwritten == \A c \in Calls : photoCall[c].step = "uploaded" =>
    /\ photoCall[c].new # 0
    /\ <<Photo!Bucket(photoCall[c].kind), photoCall[c].new>> \in stored
    /\ \A k \in Photo!AllKinds : row[k] # photoCall[c].new
    /\ photoCall[c].new \notin sent
    /\ \A d \in Calls : photoCall[d].old # photoCall[c].new
    /\ \A d \in Calls : d # c => photoCall[d].new # photoCall[c].new

(* What a handler takes for the old file is not another row's, and no      *)
(* row's once the handler has written its own.                             *)
PhotoReplaced == \A c \in Calls :
    /\ photoCall[c].step \in {"started", "uploaded"} /\ photoCall[c].old # 0 =>
          /\ photoCall[c].kind = "profile"
          /\ \A k \in Photo!AllKinds : k # "profile"
               => row[k] # photoCall[c].old
    /\ photoCall[c].step = "written" =>
          /\ photoCall[c].new # 0 /\ photoCall[c].new # photoCall[c].old
          /\ photoCall[c].old # 0 => \A k \in Photo!AllKinds :
               row[k] # photoCall[c].old
    /\ photoCall[c].step = "invalidate" =>
          photoCall[c].new # 0 /\ photoCall[c].kind = "store"

PhotoKept ==
    /\ \A k \in Photo!AllKinds : row[k] # 0 /\ row[k] \notin torn
          => <<"public", row[k]>> \in stored
    /\ \A f \in sent \ torn : <<"private", f>> \in stored

PhotoInv == PhotoTyped /\ PhotoUsedNames /\ PhotoOneRow /\ PhotoUnwritten
  /\ PhotoReplaced /\ PhotoKept

-----------------------------------------------------------------------------

LEMMA PhotoInit ==
  ASSUME Photo!PhotoAssumption
  PROVE  Photo!Init => PhotoInv
<1> SUFFICES ASSUME Photo!Init PROVE PhotoInv
  OBVIOUS
<1>1. Photo!Idle \in PhotoRecords /\ Photo!Idle.step = "idle"
      /\ Photo!Idle.old = 0 /\ Photo!Idle.new = 0
  BY DEF Photo!Idle, PhotoRecords, PhotoSteps, Photo!AllKinds
<1> HIDE DEF Photo!Idle
<1>2. \A c \in Calls : photoCall[c] = Photo!Idle
  BY DEF Photo!Init
<1>3. PhotoTyped
  BY <1>1 DEF Photo!Init, PhotoTyped
<1>4. PhotoUsedNames /\ PhotoOneRow /\ PhotoKept
  BY <1>1, <1>2 DEF Photo!Init, PhotoUsedNames, PhotoOneRow, PhotoKept
<1>5. PhotoUnwritten /\ PhotoReplaced
  BY <1>1, <1>2 DEF PhotoUnwritten, PhotoReplaced
<1> QED BY <1>3, <1>4, <1>5 DEF PhotoInv

(* A handler that comes to its end, or has nothing left but to invalidate, *)
(* and may remove one public file that no other handler has uploaded and   *)
(* that no row names, or is marked as removed all the same.                *)
LEMMA PhotoEndKeeps ==
  ASSUME Photo!PhotoAssumption, PhotoInv, NEW c \in Calls,
         NEW f \in Photo!Files \union {0},
         UNCHANGED <<row, sent, used>>,
         \/ photoCall' = [photoCall EXCEPT ![c] = Photo!Idle]
         \/ /\ photoCall' = [photoCall EXCEPT ![c].step = "invalidate"]
            /\ photoCall[c].new # 0 /\ photoCall[c].kind = "store",
         stored' \in {stored, stored \ {<<"public", f>>}},
         leaked' \subseteq Photo!Locations, torn' \subseteq Photo!Files,
         torn \subseteq torn',
         \A k \in Photo!AllKinds : row[k] # 0 /\ row[k] = f => f \in torn',
         \A d \in Calls : photoCall[d].step = "uploaded" /\ d # c
                             => photoCall[d].new # f
  PROVE  PhotoInv'
<1>1. /\ \A d \in Calls : d # c => photoCall'[d] = photoCall[d]
      /\ photoCall'[c].step \in {"idle", "invalidate"}
      /\ photoCall'[c].old \in {0, photoCall[c].old}
      /\ photoCall'[c].new \in {0, photoCall[c].new}
      /\ photoCall'[c].step = "invalidate"
            => photoCall'[c].new # 0 /\ photoCall'[c].kind = "store"
      /\ photoCall' \in [Calls -> PhotoRecords]
  BY DEF PhotoInv, PhotoTyped, PhotoRecords, PhotoSteps, Photo!Idle,
         Photo!AllKinds
<1>2. PhotoTyped'
  BY <1>1 DEF PhotoInv, PhotoTyped
<1>3. PhotoUsedNames'
  BY <1>1 DEF PhotoInv, PhotoTyped, PhotoUsedNames
<1>4. PhotoOneRow'
  BY DEF PhotoInv, PhotoOneRow
<1>5. PhotoUnwritten'
  <2> SUFFICES ASSUME NEW d \in Calls, photoCall'[d].step = "uploaded"
               PROVE  /\ photoCall'[d].new # 0
                      /\ <<Photo!Bucket(photoCall'[d].kind),
                           photoCall'[d].new>> \in stored'
                      /\ \A k \in Photo!AllKinds : row[k] # photoCall'[d].new
                      /\ photoCall'[d].new \notin sent
                      /\ \A e \in Calls : photoCall'[e].old # photoCall'[d].new
                      /\ \A e \in Calls : e # d
                            => photoCall'[e].new # photoCall'[d].new
    BY DEF PhotoUnwritten
  <2>1. d # c /\ photoCall'[d] = photoCall[d]
    BY <1>1
  <2>2. <<Photo!Bucket(photoCall[d].kind), photoCall[d].new>> \in stored'
    BY <2>1 DEF PhotoInv, PhotoUnwritten
  <2>3. photoCall[d].new # 0 /\ \A e \in Calls :
          photoCall[e].old # photoCall[d].new
    BY <2>1 DEF PhotoInv, PhotoUnwritten
  <2>4. \A e \in Calls : photoCall'[e].old # photoCall[d].new
    <3> SUFFICES ASSUME NEW e \in Calls
                 PROVE  photoCall'[e].old # photoCall[d].new
      OBVIOUS
    <3>1. photoCall'[e].old \in {0, photoCall[e].old}
      BY <1>1
    <3> QED BY <2>3, <3>1
  <2> QED BY <1>1, <2>1, <2>2, <2>4 DEF PhotoInv, PhotoUnwritten
<1>6. PhotoReplaced'
  BY <1>1 DEF PhotoInv, PhotoReplaced
<1>7. PhotoKept'
  BY DEF PhotoInv, PhotoKept
<1> QED BY <1>2, <1>3, <1>4, <1>5, <1>6, <1>7 DEF PhotoInv

LEMMA PhotoStartKeeps ==
  ASSUME Photo!PhotoAssumption, PhotoInv, NEW c \in Calls,
         NEW k \in Photo!AllKinds, Photo!Start(c, k)
  PROVE  PhotoInv'
<1>1. /\ \A d \in Calls : d # c => photoCall'[d] = photoCall[d]
      /\ photoCall'[c].step = "started" /\ photoCall'[c].kind = k
      /\ photoCall'[c].new = 0
      /\ photoCall'[c].old = IF k = "profile" THEN row[k] ELSE 0
      /\ UNCHANGED <<stored, row, sent, used, leaked, torn>>
  BY DEF Photo!Start, PhotoInv, PhotoTyped
<1>2. photoCall' \in [Calls -> PhotoRecords]
  BY DEF Photo!Start, PhotoInv, PhotoTyped, PhotoRecords, PhotoSteps
<1>3. used \in Nat
  BY DEF PhotoInv, PhotoTyped
<1>4. PhotoTyped'
  BY <1>1, <1>2 DEF PhotoInv, PhotoTyped
<1>5. PhotoUsedNames'
  BY <1>1, <1>3 DEF PhotoInv, PhotoUsedNames
<1>6. PhotoOneRow' /\ PhotoKept'
  BY <1>1 DEF PhotoInv, PhotoOneRow, PhotoKept
<1>7. PhotoUnwritten'
  BY <1>1 DEF PhotoInv, PhotoUnwritten
<1>8. PhotoReplaced'
  BY <1>1 DEF PhotoInv, PhotoOneRow, PhotoReplaced
<1> QED BY <1>4, <1>5, <1>6, <1>7, <1>8 DEF PhotoInv

LEMMA PhotoUploadKeeps ==
  ASSUME Photo!PhotoAssumption, PhotoInv, NEW c \in Calls, Photo!Upload(c)
  PROVE  PhotoInv'
<1> DEFINE n == used + 1
<1>1. /\ used \in Nat /\ n \in Photo!Files /\ n > used /\ n # 0
      /\ photoCall[c].step = "started" /\ used' = n
      /\ UNCHANGED <<row, sent, leaked, torn>>
  BY DEF Photo!Upload, PhotoInv, PhotoTyped, Photo!Files
<1>2. /\ \A d \in Calls : d # c => photoCall'[d] = photoCall[d]
      /\ photoCall'[c].step = "uploaded"
      /\ photoCall'[c].kind = photoCall[c].kind
      /\ photoCall'[c].new = n /\ photoCall'[c].old = photoCall[c].old
      /\ stored' = stored \union {<<Photo!Bucket(photoCall[c].kind), n>>}
  BY DEF Photo!Upload, Photo!NewName, PhotoInv, PhotoTyped, PhotoRecords
<1>3. photoCall' \in [Calls -> PhotoRecords]
  BY <1>1
     DEF Photo!Upload, Photo!NewName, PhotoInv, PhotoTyped, PhotoRecords,
         PhotoSteps
<1>4. /\ \A k \in Photo!AllKinds : row[k] # n
      /\ \A f \in sent : f # n
      /\ \A d \in Calls : photoCall[d].old # n /\ photoCall[d].new # n
  BY <1>1 DEF PhotoInv, PhotoUsedNames
<1> HIDE DEF n
<1>5. PhotoTyped'
  <2>1. used' \in 0..MaxFiles
    BY <1>1 DEF Photo!Files
  <2>2. stored' \subseteq {"public", "private"} \X Photo!Files
    BY <1>1, <1>2 DEF PhotoInv, PhotoTyped, Photo!Bucket
  <2> QED BY <1>1, <1>3, <2>1, <2>2 DEF PhotoInv, PhotoTyped
<1>6. PhotoUsedNames'
  <2>1. \A k \in Photo!AllKinds : row[k] \in Nat
    BY DEF PhotoInv, PhotoTyped, Photo!Files
  <2>2. \A f \in sent : f \in Nat
    BY DEF PhotoInv, PhotoTyped, Photo!Files
  <2>3. \A d \in Calls : photoCall[d].old \in Nat /\ photoCall[d].new \in Nat
    BY DEF PhotoInv, PhotoTyped, PhotoRecords, Photo!Files
  <2>4. n \in Nat
    BY <1>1 DEF Photo!Files
  <2> QED BY <1>1, <1>2, <2>1, <2>2, <2>3, <2>4 DEF PhotoInv, PhotoUsedNames
<1>7. PhotoOneRow' /\ PhotoKept'
  BY <1>1, <1>2 DEF PhotoInv, PhotoOneRow, PhotoKept
<1>8. PhotoUnwritten'
  BY <1>1, <1>2, <1>4 DEF PhotoInv, PhotoUnwritten
<1>9. PhotoReplaced'
  BY <1>1, <1>2 DEF PhotoInv, PhotoReplaced
<1> QED BY <1>5, <1>6, <1>7, <1>8, <1>9 DEF PhotoInv

LEMMA PhotoSendKeeps ==
  ASSUME Photo!PhotoAssumption,
         PhotoInv, NEW c \in Calls, Photo!Send(c)
  PROVE  PhotoInv'
<1>1. /\ photoCall[c].step = "uploaded"
      /\ photoCall[c].kind \in Photo!Messages
      /\ sent' = sent \union {photoCall[c].new}
      /\ photoCall' = [photoCall EXCEPT ![c] = Photo!Idle]
      /\ UNCHANGED <<stored, row, used, leaked, torn>>
  BY DEF Photo!Send, Photo!Done
<1>2. /\ \A d \in Calls : d # c => photoCall'[d] = photoCall[d]
      /\ photoCall'[c].step = "idle" /\ photoCall'[c].old = 0
      /\ photoCall'[c].new = 0
  BY <1>1 DEF Photo!Idle, PhotoInv, PhotoTyped
<1>3. /\ photoCall[c].new \in Photo!Files /\ photoCall[c].new <= used
      /\ <<"private", photoCall[c].new>> \in stored
      /\ \A d \in Calls : d # c => photoCall[d].new # photoCall[c].new
  BY <1>1
     DEF PhotoInv, PhotoUnwritten, PhotoUsedNames, PhotoTyped, PhotoRecords,
         Photo!Bucket
<1>4. PhotoTyped'
  <2>1. Photo!Idle \in PhotoRecords
    BY DEF Photo!Idle, PhotoRecords, PhotoSteps, Photo!AllKinds
  <2> QED BY <1>1, <1>3, <2>1 DEF PhotoInv, PhotoTyped
<1>5. PhotoUsedNames'
  BY <1>1, <1>2, <1>3 DEF PhotoInv, PhotoUsedNames, PhotoTyped
<1>6. PhotoOneRow' /\ PhotoKept'
  BY <1>1, <1>3 DEF PhotoInv, PhotoOneRow, PhotoKept
<1>7. PhotoUnwritten'
  BY <1>1, <1>2, <1>3 DEF PhotoInv, PhotoUnwritten
<1>8. PhotoReplaced'
  BY <1>1, <1>2 DEF PhotoInv, PhotoReplaced
<1> QED BY <1>4, <1>5, <1>6, <1>7, <1>8 DEF PhotoInv

LEMMA PhotoWriteKeeps ==
  ASSUME Photo!PhotoAssumption,
         PhotoInv, NEW c \in Calls, Photo!Write(c)
  PROVE  PhotoInv'
<1> DEFINE k == photoCall[c].kind
           n == photoCall[c].new
<1>1. /\ photoCall[c].step = "uploaded" /\ row' = [row EXCEPT ![k] = n]
      /\ photoCall' = [photoCall EXCEPT ![c].step = "written",
                     ![c].old = IF k = "profile" THEN @ ELSE row[k]]
      /\ UNCHANGED <<stored, sent, used, torn>>
  BY DEF Photo!Write
<1>2. /\ \A d \in Calls : d # c => photoCall'[d] = photoCall[d]
      /\ photoCall'[c].step = "written" /\ photoCall'[c].new = n
      /\ photoCall'[c].old = IF k = "profile" THEN photoCall[c].old ELSE row[k]
  BY <1>1 DEF PhotoInv, PhotoTyped, PhotoRecords
<1>3. k \in Photo!AllKinds /\ n \in Photo!Files /\ n # 0 /\ n <= used
      /\ row[k] \in Photo!Files \union {0} /\ row[k] <= used
  BY <1>1
     DEF PhotoInv, PhotoTyped, PhotoRecords, PhotoUnwritten, PhotoUsedNames
<1>4. /\ <<"public", n>> \in stored
      /\ \A l \in Photo!AllKinds : row[l] # n
      /\ \A d \in Calls : photoCall[d].old # n
      /\ \A d \in Calls : d # c => photoCall[d].new # n
      /\ k \notin Photo!Messages
  BY <1>1 DEF PhotoInv, PhotoUnwritten, Photo!Bucket, Photo!Write
<1>5. /\ \A l \in Photo!AllKinds : l # k => row'[l] = row[l]
      /\ row'[k] = n
  BY <1>1, <1>3 DEF PhotoInv, PhotoTyped
<1>6. \A l \in Photo!AllKinds : photoCall'[c].old # 0
        => row'[l] # photoCall'[c].old
  <2>1. CASE k = "profile"
    BY <1>1, <1>2, <1>4, <1>5, <2>1 DEF PhotoInv, PhotoReplaced
  <2>2. CASE k # "profile"
    BY <1>2, <1>3, <1>4, <1>5, <2>2 DEF PhotoInv, PhotoOneRow
  <2> QED BY <2>1, <2>2
<1>7. photoCall'[c].old # n
  BY <1>2, <1>3, <1>4
<1>8. photoCall'[c].old \in Photo!Files \union {0} /\ photoCall'[c].old <= used
  BY <1>2, <1>3 DEF PhotoInv, PhotoTyped, PhotoRecords, PhotoUsedNames
<1> HIDE DEF k, n
<1>9. PhotoTyped'
  <2>1. row' \in [Photo!AllKinds -> Photo!Files \union {0}]
    BY <1>1, <1>3 DEF PhotoInv, PhotoTyped
  <2>2. photoCall' \in [Calls -> PhotoRecords]
    <3> DEFINE o == IF k = "profile" THEN photoCall[c].old ELSE row[k]
    <3>1. photoCall[c] \in PhotoRecords /\ o \in Photo!Files \union {0}
      BY <1>2, <1>8 DEF PhotoInv, PhotoTyped
    <3>2. [photoCall[c] EXCEPT !.step = "written", !.old = o] \in PhotoRecords
      BY <3>1 DEF PhotoRecords, PhotoSteps
    <3>3. photoCall' = [photoCall EXCEPT ![c] =
                     [photoCall[c] EXCEPT !.step = "written", !.old = o]]
      BY <1>1, <3>1 DEF PhotoInv, PhotoTyped, PhotoRecords
    <3> HIDE DEF o
    <3> QED BY <3>2, <3>3 DEF PhotoInv, PhotoTyped
  <2>3. leaked' \subseteq Photo!Locations
    <3>1. row[photoCall[c].kind] # 0
            => <<"public", row[photoCall[c].kind]>> \in Photo!Locations
      BY <1>3 DEF Photo!Locations, k
    <3> QED BY <3>1 DEF Photo!Write, PhotoInv, PhotoTyped
  <2> QED BY <1>1, <2>1, <2>2, <2>3 DEF PhotoInv, PhotoTyped
<1>10. PhotoUsedNames'
  BY <1>1, <1>2, <1>3, <1>5, <1>8 DEF PhotoInv, PhotoUsedNames
<1>11. PhotoOneRow'
  BY <1>4, <1>5 DEF PhotoInv, PhotoOneRow
<1>12. PhotoUnwritten'
  <2> SUFFICES ASSUME NEW d \in Calls, photoCall'[d].step = "uploaded"
               PROVE  /\ photoCall'[d].new # 0
                      /\ <<Photo!Bucket(photoCall'[d].kind),
                           photoCall'[d].new>> \in stored
                      /\ \A l \in Photo!AllKinds : row'[l] # photoCall'[d].new
                      /\ photoCall'[d].new \notin sent
                      /\ \A e \in Calls : photoCall'[e].old # photoCall'[d].new
                      /\ \A e \in Calls : e # d
                            => photoCall'[e].new # photoCall'[d].new
    BY <1>1 DEF PhotoUnwritten
  <2>1. d # c /\ photoCall'[d] = photoCall[d] /\ photoCall[d].step = "uploaded"
    BY <1>2
  <2>2. \A l \in Photo!AllKinds : row'[l] # photoCall[d].new
    BY <1>4, <1>5, <2>1 DEF PhotoInv, PhotoUnwritten
  <2>3. \A e \in Calls : photoCall'[e].old # photoCall[d].new
    <3>1. photoCall'[c].old # photoCall[d].new
      BY <1>2, <1>3, <2>1 DEF PhotoInv, PhotoUnwritten
    <3> QED BY <1>2, <2>1, <3>1 DEF PhotoInv, PhotoUnwritten
  <2>4. \A e \in Calls : e # d => photoCall'[e].new # photoCall[d].new
    BY <1>2, <1>4, <2>1 DEF PhotoInv, PhotoUnwritten
  <2> QED BY <2>1, <2>2, <2>3, <2>4 DEF PhotoInv, PhotoUnwritten
<1>13. PhotoReplaced'
  <2> SUFFICES ASSUME NEW d \in Calls
               PROVE  /\ photoCall'[d].step \in {"started", "uploaded"}
                            /\ photoCall'[d].old # 0 =>
                         /\ photoCall'[d].kind = "profile"
                         /\ \A l \in Photo!AllKinds :
                               l # "profile" => row'[l] # photoCall'[d].old
                      /\ photoCall'[d].step = "written" =>
                         /\ photoCall'[d].new # 0
                         /\ photoCall'[d].new # photoCall'[d].old
                         /\ photoCall'[d].old # 0 =>
                               \A l \in Photo!AllKinds :
                                     row'[l] # photoCall'[d].old
                      /\ photoCall'[d].step = "invalidate" =>
                            photoCall'[d].new # 0
                              /\ photoCall'[d].kind = "store"
    BY DEF PhotoReplaced
  <2>1. CASE d = c
    BY <1>2, <1>3, <1>6, <1>7, <2>1
  <2>2. CASE d # c
    <3>1. photoCall'[d] = photoCall[d] /\ photoCall[d].old # n
      BY <1>2, <1>4, <2>2
    <3> QED BY <1>5, <3>1 DEF PhotoInv, PhotoReplaced
  <2> QED BY <2>1, <2>2
<1>14. PhotoKept'
  BY <1>1, <1>4, <1>5 DEF PhotoInv, PhotoKept
<1> QED BY <1>9, <1>10, <1>11, <1>12, <1>13, <1>14 DEF PhotoInv

LEMMA PhotoStep ==
  ASSUME Photo!PhotoAssumption
  PROVE  PhotoInv /\ [Photo!Next]_Photo!vars => PhotoInv'
<1> SUFFICES ASSUME PhotoInv, [Photo!Next]_Photo!vars PROVE PhotoInv'
  OBVIOUS
<1>0. /\ leaked \subseteq Photo!Locations /\ torn \subseteq Photo!Files
      /\ \A c \in Calls : photoCall[c].step = "uploaded"
            => Photo!NewAt(c) \in Photo!Locations
      /\ \A c \in Calls : photoCall[c].old # 0
            => Photo!OldAt(c) \in Photo!Locations
      /\ \A c \in Calls : Photo!InHand(c) \subseteq Photo!Locations
  BY DEF PhotoInv, PhotoTyped, PhotoUnwritten, PhotoRecords, Photo!NewAt,
         Photo!OldAt, Photo!Locations, Photo!InHand
<1>1. ASSUME NEW c \in Calls, NEW k \in Photo!AllKinds, Photo!Start(c, k)
      PROVE  PhotoInv'
  BY <1>1, PhotoStartKeeps
<1>2. ASSUME NEW c \in Calls, Photo!Upload(c) PROVE PhotoInv'
  BY <1>2, PhotoUploadKeeps
<1>3. ASSUME NEW c \in Calls, Photo!Send(c) \/ Photo!Write(c) PROVE PhotoInv'
  BY <1>3, PhotoSendKeeps, PhotoWriteKeeps
<1>4. ASSUME NEW c \in Calls,
             Photo!UploadFails(c) \/ Photo!Refuse(c) \/ Photo!Crash(c)
      PROVE PhotoInv'
  <2>1. /\ photoCall' = [photoCall EXCEPT ![c] = Photo!Idle]
        /\ UNCHANGED <<stored, row, sent, used, torn>>
        /\ leaked' \subseteq Photo!Locations
    BY <1>0, <1>4
       DEF Photo!UploadFails, Photo!Refuse, Photo!Crash, Photo!Done
  <2>2. /\ 0 \in Photo!Files \union {0}
        /\ \A d \in Calls : photoCall[d].step = "uploaded"
             => photoCall[d].new # 0
    BY DEF PhotoInv, PhotoUnwritten
  <2>3. /\ \A k \in Photo!AllKinds : ~(row[k] # 0 /\ row[k] = 0)
        /\ stored' \in {stored, stored \ {<<"public", 0>>}}
        /\ torn' \subseteq Photo!Files /\ torn \subseteq torn'
    BY <1>0, <2>1
  <2> QED BY <2>1, <2>2, <2>3, PhotoEndKeeps
<1>5. ASSUME NEW c \in Calls, Photo!Fail(c) PROVE PhotoInv'
  <2>1. /\ photoCall[c].step = "uploaded"
        /\ photoCall' = [photoCall EXCEPT ![c] = Photo!Idle]
        /\ UNCHANGED <<row, sent, used, torn>>
        /\ stored' \in {stored, stored \ {<<"public", photoCall[c].new>>}}
        /\ leaked' \subseteq leaked \union {Photo!NewAt(c)}
    BY <1>5 DEF Photo!Fail, Photo!Done, Photo!CleanedUp, Photo!NewAt
  <2>2. /\ photoCall[c].new \in Photo!Files \union {0}
        /\ \A k \in Photo!AllKinds : row[k] # photoCall[c].new
        /\ \A d \in Calls : d # c => photoCall[d].new # photoCall[c].new
    BY <2>1 DEF PhotoInv, PhotoTyped, PhotoRecords, PhotoUnwritten
  <2>3. /\ leaked' \subseteq Photo!Locations
        /\ torn' \subseteq Photo!Files /\ torn \subseteq torn'
    BY <1>0, <2>1
  <2>4. /\ \A k \in Photo!AllKinds : row[k] # 0 /\ row[k] = photoCall[c].new
              => photoCall[c].new \in torn'
        /\ \A d \in Calls : photoCall[d].step = "uploaded" /\ d # c
              => photoCall[d].new # photoCall[c].new
    BY <2>2
  <2> QED BY <2>1, <2>2, <2>3, <2>4, PhotoEndKeeps
<1>6. ASSUME NEW c \in Calls, Photo!CleanOld(c) PROVE PhotoInv'
  <2>1. /\ photoCall[c].step = "written" /\ UNCHANGED <<row, sent, used, torn>>
        /\ \/ photoCall' = [photoCall EXCEPT ![c] = Photo!Idle]
           \/ /\ photoCall' = [photoCall EXCEPT ![c].step = "invalidate"]
              /\ photoCall[c].kind = "store"
        /\ stored' \in {stored, stored \ {<<"public", photoCall[c].old>>}}
        /\ \/ leaked' = leaked
           \/ /\ photoCall[c].old # 0
              /\ leaked' \subseteq leaked \union {Photo!OldAt(c)}
    BY <1>6
       DEF Photo!CleanOld, Photo!Done, Photo!Goto, Photo!CleanedUp, Photo!OldAt
  <2>2. /\ photoCall[c].old \in Photo!Files \union {0}
        /\ \A k \in Photo!AllKinds : row[k] # 0 => row[k] # photoCall[c].old
        /\ \A d \in Calls : photoCall[d].step = "uploaded" /\ d # c
              => photoCall[d].new # photoCall[c].old
        /\ photoCall[c].new # 0
    BY <2>1
       DEF PhotoInv, PhotoTyped, PhotoRecords, PhotoReplaced, PhotoUnwritten
  <2>3. /\ leaked' \subseteq Photo!Locations
        /\ torn' \subseteq Photo!Files /\ torn \subseteq torn'
    BY <1>0, <2>1
  <2> QED BY <2>1, <2>2, <2>3, PhotoEndKeeps
<1>7. ASSUME NEW c \in Calls, Photo!Invalidate(c) PROVE PhotoInv'
  <2>1. /\ photoCall[c].step = "invalidate"
        /\ UNCHANGED <<row, sent, used, leaked>>
        /\ photoCall' = [photoCall EXCEPT ![c] = Photo!Idle]
        /\ \/ UNCHANGED <<stored, torn>>
           \/ /\ stored' = stored \ {Photo!NewAt(c)}
              /\ torn' = torn \union {photoCall[c].new}
    BY <1>7 DEF Photo!Invalidate, Photo!Done
  <2>2. /\ photoCall[c].new \in Photo!Files
        /\ \A d \in Calls : photoCall[d].step = "uploaded" /\ d # c
              => photoCall[d].new # photoCall[c].new
        /\ 0 \in Photo!Files \union {0}
        /\ \A d \in Calls : photoCall[d].step = "uploaded"
             => photoCall[d].new # 0
    BY <2>1
       DEF PhotoInv, PhotoTyped, PhotoRecords, PhotoReplaced, PhotoUnwritten
  <2>3. CASE UNCHANGED <<stored, torn>>
    <3>1. /\ \A k \in Photo!AllKinds : ~(row[k] # 0 /\ row[k] = 0)
          /\ stored' \in {stored, stored \ {<<"public", 0>>}}
          /\ leaked' \subseteq Photo!Locations
          /\ torn' \subseteq Photo!Files /\ torn \subseteq torn'
      BY <1>0, <2>1, <2>3
    <3> QED BY <2>1, <2>2, <3>1, PhotoEndKeeps
  <2>4. CASE /\ stored' = stored \ {Photo!NewAt(c)}
             /\ torn' = torn \union {photoCall[c].new}
    <3>1. stored' \in {stored, stored \ {<<"public", photoCall[c].new>>}}
      BY <2>1, <2>4
         DEF Photo!NewAt, Photo!Bucket, PhotoInv, PhotoReplaced, Photo!Messages
    <3>2. photoCall[c].new \in torn' /\ torn \subseteq torn'
      BY <2>4
    <3>3. leaked' \subseteq Photo!Locations /\ torn' \subseteq Photo!Files
      BY <1>0, <2>1, <2>2, <2>4
    <3>4. photoCall[c].new \in Photo!Files \union {0}
      BY <2>2
    <3> QED BY <2>1, <2>2, <3>1, <3>2, <3>3, <3>4, PhotoEndKeeps
  <2> QED BY <2>1, <2>3, <2>4
<1>8. CASE UNCHANGED Photo!vars
  BY <1>8
     DEF Photo!vars, PhotoInv, PhotoTyped, PhotoUsedNames, PhotoOneRow,
         PhotoUnwritten, PhotoReplaced, PhotoKept
<1> QED BY <1>1, <1>2, <1>3, <1>4, <1>5, <1>6, <1>7, <1>8 DEF Photo!Next

(* What it says of the code: types, that no handler takes its own new file *)
(* for the old one, and that a file that a row names is in storage.        *)
LEMMA PhotoProperties ==
  ASSUME Photo!PhotoAssumption, PhotoInv
  PROVE  Photo!TypeOK /\ Photo!NamedIsStored
<1>1. Photo!TypeOK
  BY DEF PhotoInv, PhotoTyped, PhotoRecords, PhotoReplaced, Photo!TypeOK,
         Photo!Locations
<1>2. Photo!NamedIsStored
  BY DEF PhotoInv, PhotoKept, Photo!NamedIsStored, Photo!Named
<1> QED BY <1>1, <1>2

-----------------------------------------------------------------------------
(* Whatever fails, a file is named, in a handler's hands or known to be    *)
(* left behind.                                                            *)
LEMMA OrphanInit == Photo!Init => Photo!OrphansAreKnown
BY DEF Photo!Init, Photo!OrphansAreKnown

LEMMA OrphanStep ==
  ASSUME Photo!PhotoAssumption
  PROVE  PhotoInv /\ Photo!OrphansAreKnown /\ [Photo!Next]_Photo!vars
            => Photo!OrphansAreKnown'
<1> SUFFICES ASSUME PhotoInv, Photo!OrphansAreKnown, [Photo!Next]_Photo!vars
             PROVE  Photo!OrphansAreKnown'
  OBVIOUS
<1>0. photoCall \in [Calls -> PhotoRecords]
  BY DEF PhotoInv, PhotoTyped
\* What the others have in hand stays there.
<1>1. ASSUME NEW c \in Calls,
             \A d \in Calls : d # c => photoCall'[d] = photoCall[d],
             \A at \in stored' :
                at \notin stored \/ at \in Photo!Named \/ at \in leaked
                  \/ at \in Photo!InHand(c)
                => \/ at \in Photo!Named' \/ at \in leaked'
                   \/ at \in Photo!InHand(c)'
      PROVE  Photo!OrphansAreKnown'
  <2> SUFFICES ASSUME NEW at \in stored',
                      at \notin Photo!Named', at \notin leaked'
               PROVE  \E d \in Calls : at \in Photo!InHand(d)'
    BY DEF Photo!OrphansAreKnown
  <2>1. CASE at \in Photo!InHand(c)'
    BY <2>1
  <2>2. CASE at \notin Photo!InHand(c)'
    <3>1. PICK d \in Calls : at \in Photo!InHand(d) /\ d # c
      BY <1>1, <2>2 DEF Photo!OrphansAreKnown
    <3>2. Photo!InHand(d)' = Photo!InHand(d)
      BY <1>1, <3>1 DEF Photo!InHand, Photo!NewAt, Photo!OldAt
    <3> QED BY <3>1, <3>2
  <2> QED BY <2>1, <2>2
<1>2. ASSUME NEW c \in Calls, Photo!Done(c)
      PROVE  \A d \in Calls : d # c => photoCall'[d] = photoCall[d]
  BY <1>0, <1>2 DEF Photo!Done
<1>3. ASSUME UNCHANGED <<row, sent>> PROVE Photo!Named' = Photo!Named
  BY <1>3 DEF Photo!Named
<1>4. ASSUME NEW c \in Calls, NEW k \in Photo!AllKinds, Photo!Start(c, k)
      PROVE  Photo!OrphansAreKnown'
  <2>1. /\ UNCHANGED <<stored, row, sent, leaked>> /\ Photo!InHand(c) = {}
        /\ \A d \in Calls : d # c => photoCall'[d] = photoCall[d]
    BY <1>0, <1>4 DEF Photo!Start, Photo!InHand
  <2> QED BY <1>1, <1>3, <2>1
<1>5. ASSUME NEW c \in Calls, Photo!Upload(c) PROVE Photo!OrphansAreKnown'
  <2> DEFINE n == used + 1
             at == <<Photo!Bucket(photoCall[c].kind), n>>
  <2>1. /\ UNCHANGED <<row, sent, leaked>> /\ Photo!InHand(c) = {}
        /\ stored' = stored \union {at}
        /\ photoCall' = [photoCall EXCEPT ![c].step = "uploaded", ![c].new = n]
    BY <1>5 DEF Photo!Upload, Photo!InHand, Photo!NewName
  <2>2. /\ \A d \in Calls : d # c => photoCall'[d] = photoCall[d]
        /\ photoCall'[c].step = "uploaded" /\ photoCall'[c].new = n
        /\ photoCall'[c].kind = photoCall[c].kind
    BY <1>0, <2>1 DEF PhotoRecords
  <2>3. at \in Photo!InHand(c)'
    BY <2>2 DEF Photo!InHand, Photo!NewAt
  <2> HIDE DEF n, at
  <2> QED BY <1>1, <1>3, <2>1, <2>2, <2>3
<1>6. ASSUME NEW c \in Calls, Photo!UploadFails(c) PROVE Photo!OrphansAreKnown'
  <2>1. /\ UNCHANGED <<stored, row, sent, leaked>> /\ Photo!InHand(c) = {}
        /\ Photo!Done(c)
    BY <1>6 DEF Photo!UploadFails, Photo!InHand
  <2> QED BY <1>1, <1>2, <1>3, <2>1
<1>7. ASSUME NEW c \in Calls, Photo!Send(c) PROVE Photo!OrphansAreKnown'
  <2>1. /\ UNCHANGED <<stored, row, leaked>> /\ Photo!Done(c)
        /\ sent' = sent \union {photoCall[c].new}
        /\ Photo!InHand(c) = {<<"private", photoCall[c].new>>}
    BY <1>7 DEF Photo!Send, Photo!InHand, Photo!NewAt, Photo!Bucket
  <2>2. /\ Photo!Named \subseteq Photo!Named'
        /\ Photo!InHand(c) \subseteq Photo!Named'
    BY <2>1 DEF Photo!Named
  <2> QED BY <1>1, <1>2, <2>1, <2>2
<1>8. ASSUME NEW c \in Calls, Photo!Write(c) PROVE Photo!OrphansAreKnown'
  <2> DEFINE k == photoCall[c].kind
             n == photoCall[c].new
             o == IF k = "profile" THEN photoCall[c].old ELSE row[k]
  <2>1. /\ photoCall[c].step = "uploaded" /\ k \in Photo!AllKinds
        /\ k \notin Photo!Messages /\ n # 0
        /\ row \in [Photo!AllKinds -> Photo!Files \union {0}]
    BY <1>0, <1>8
       DEF Photo!Write, PhotoInv, PhotoTyped, PhotoUnwritten, PhotoRecords
  <2>2. /\ row' = [row EXCEPT ![k] = n] /\ UNCHANGED <<stored, sent>>
        /\ \A d \in Calls : d # c => photoCall'[d] = photoCall[d]
        /\ photoCall'[c].step = "written" /\ photoCall'[c].old = o
    BY <1>0, <1>8 DEF Photo!Write, PhotoRecords
  <2>3. Photo!InHand(c) = {<<"public", n>>}
    BY <2>1 DEF Photo!InHand, Photo!NewAt, Photo!Bucket
  <2>4. Photo!InHand(c)' = IF o = 0 THEN {} ELSE {<<"public", o>>}
    BY <2>2 DEF Photo!InHand, Photo!OldAt
  <2>5. leaked \subseteq leaked'
        /\ (row[k] = 0 \/ row[k] = o \/ <<"public", row[k]>> \in leaked')
    BY <1>8 DEF Photo!Write
  <2> HIDE DEF k, n, o
  <2>6. <<"public", n>> \in Photo!Named'
    BY <2>1, <2>2 DEF Photo!Named
  <2>7. ASSUME NEW at \in Photo!Named
        PROVE  at \in Photo!Named' \/ at \in leaked' \/ at \in Photo!InHand(c)'
    <3>1. CASE at \in {<<"private", f>> : f \in sent}
      BY <2>2, <3>1 DEF Photo!Named
    <3>2. CASE \E l \in Photo!AllKinds : row[l] # 0 /\ at = <<"public", row[l]>>
      <4>1. PICK l \in Photo!AllKinds : row[l] # 0 /\ at = <<"public", row[l]>>
        BY <3>2
      <4>2. CASE l = k
        BY <2>4, <2>5, <4>1, <4>2
      <4>3. CASE l # k
        <5>1. row'[l] = row[l]
          BY <2>1, <2>2, <4>3
        <5> QED BY <4>1, <5>1 DEF Photo!Named
      <4> QED BY <4>2, <4>3
    <3> QED BY <3>1, <3>2 DEF Photo!Named
  <2> QED BY <1>1, <2>2, <2>3, <2>5, <2>6, <2>7
<1>9. ASSUME NEW c \in Calls, Photo!Fail(c) PROVE Photo!OrphansAreKnown'
  <2>1. /\ UNCHANGED <<row, sent>> /\ Photo!Done(c) /\ stored' \subseteq stored
        /\ leaked \subseteq leaked' /\ Photo!InHand(c) = {Photo!NewAt(c)}
        /\ Photo!NewAt(c) \in leaked' \/ Photo!NewAt(c) \notin stored'
    BY <1>9 DEF Photo!Fail, Photo!CleanedUp, Photo!InHand
  <2> QED BY <1>1, <1>2, <1>3, <2>1
<1>10. ASSUME NEW c \in Calls, Photo!Refuse(c) PROVE Photo!OrphansAreKnown'
  <2>1. /\ UNCHANGED <<stored, row, sent>> /\ Photo!Done(c)
        /\ leaked' = leaked \union Photo!InHand(c)
    BY <1>10 DEF Photo!Refuse, Photo!InHand
  <2> QED BY <1>1, <1>2, <1>3, <2>1
<1>11. ASSUME NEW c \in Calls, Photo!CleanOld(c) PROVE Photo!OrphansAreKnown'
  <2>1. /\ UNCHANGED <<row, sent>>
        /\ Photo!Done(c) \/ Photo!Goto(c, "invalidate")
        /\ stored' \subseteq stored /\ leaked \subseteq leaked'
        /\ \A at \in Photo!InHand(c) : at \in leaked' \/ at \notin stored'
    BY <1>11 DEF Photo!CleanOld, Photo!CleanedUp, Photo!InHand, Photo!OldAt
  <2>2. \A d \in Calls : d # c => photoCall'[d] = photoCall[d]
    BY <1>0, <2>1 DEF Photo!Done, Photo!Goto
  <2> QED BY <1>1, <1>3, <2>1, <2>2
<1>12. ASSUME NEW c \in Calls, Photo!Invalidate(c) PROVE Photo!OrphansAreKnown'
  <2>1. /\ UNCHANGED <<row, sent, leaked>> /\ Photo!Done(c)
        /\ stored' \subseteq stored /\ Photo!InHand(c) = {}
    BY <1>12 DEF Photo!Invalidate, Photo!InHand
  <2> QED BY <1>1, <1>2, <1>3, <2>1
<1>13. ASSUME NEW c \in Calls, Photo!Crash(c) PROVE Photo!OrphansAreKnown'
  <2>1. /\ UNCHANGED <<stored, row, sent>> /\ Photo!Done(c)
        /\ leaked' = leaked \union Photo!InHand(c)
    BY <1>13 DEF Photo!Crash
  <2> QED BY <1>1, <1>2, <1>3, <2>1
<1>14. CASE UNCHANGED Photo!vars
  <2>1. /\ UNCHANGED <<stored, row, sent, leaked, photoCall>>
        /\ \A c \in Calls : Photo!InHand(c)' = Photo!InHand(c)
    BY <1>14 DEF Photo!vars, Photo!InHand, Photo!NewAt, Photo!OldAt
  <2> QED BY <1>3, <2>1 DEF Photo!OrphansAreKnown
<1> QED BY <1>4, <1>5, <1>6, <1>7, <1>8, <1>9, <1>10, <1>11, <1>12, <1>13,
           <1>14
        DEF Photo!Next

HIDE DEF Photo!PhotoAssumption, Photo!marks

-----------------------------------------------------------------------------
(***************************************************************************)
(* Carts, their items and totals, and the stock that orders take.          *)
(***************************************************************************)
(* The instance's copy of FiniteSets is FiniteSets.                        *)
LEMMA CartFinite == \A S : Cart!IsFiniteSet(S) <=> IsFiniteSet(S)
  BY DEF Cart!IsFiniteSet, IsFiniteSet
LEMMA CartCardinality ==
  ASSUME NEW S PROVE Cart!Cardinality(S) = Cardinality(S)
  BY Zenon DEF Cart!Cardinality, Cardinality
LEMMA CartTotal == \A q, S : Cart!Total(q, S) = Total(q, S)
  BY CartCardinality DEF Cart!Total, Total, Cart!Units, Units
USE CartFinite, CartCardinality, CartTotal

(* The lock on a cart's row: what the handler that holds it has read is    *)
(* what the row still holds, and one handler holds it.                     *)
CartCalls ==
    [step : {"idle"}]
    \union [step : {"insert", "find", "fill"}, variant : Variants,
            quantity : Cart!Amounts \ {0}]
    \union [step : {"locked"}, op : {"add", "edit", "clean"},
            cart : Cart!Carts,
            variant : Variants, quantity : Cart!Amounts,
            items : [Variants -> Cart!Amounts], total : Nat]
CartStates == {"none", "open", "out", "deleted"}
CartShelves == {"available", "out_of_stock", "gone"}
CartTypes ==
    /\ state \in [Cart!Carts -> CartStates]
    /\ items \in [Cart!Carts -> [Variants -> Cart!Amounts]]
    /\ total \in [Cart!Carts -> Nat]
    /\ stock \in [Variants -> 0..MaxStock]
    /\ shelf \in [Variants -> CartShelves]
    /\ cartCall \in [Calls -> CartCalls]
CartRows == \A k \in Cart!Carts :
    /\ state[k] \in {"none", "deleted"} => items[k] = Cart!Empty
    /\ Cardinality(Cart!In(items[k])) <= MaxItems
    /\ total[k] = Total(items[k], Variants)
CartLocks ==
    /\ \A c \in Calls : cartCall[c].step = "locked" =>
          /\ cartCall[c].items = items[cartCall[c].cart]
          /\ cartCall[c].total = total[cartCall[c].cart]
          /\ state[cartCall[c].cart] \in {"open", "out"}
          /\ cartCall[c].op = "edit"
               => cartCall[c].items[cartCall[c].variant] > 0
    /\ \A c, d \in Calls :
          /\ cartCall[c].step = "locked" /\ cartCall[d].step = "locked"
          /\ cartCall[c].cart = cartCall[d].cart
          => c = d
CartInv == CartTypes /\ CartRows /\ CartLocks

\* What a cart holds: so many variants, and so many pieces.
LEMMA CartHolds ==
  ASSUME Cart!CartAssumption, NEW f \in [Variants -> Cart!Amounts]
  PROVE  /\ IsFiniteSet(Cart!In(f)) /\ Cardinality(Cart!In(f)) \in Nat
         /\ \A v \in Variants : f[v] \in Nat
         /\ Total(f, Variants) \in Nat
         /\ Total(f, Variants) <= MaxQuantity * Cardinality(Variants)
<1>1. MaxQuantity \in Nat /\ IsFiniteSet(Variants)
  BY DEF Cart!CartAssumption
<1>2. \A v \in Variants : f[v] \in Nat /\ f[v] \in 0..MaxQuantity
  BY <1>1 DEF Cart!Amounts
<1>3. IsFiniteSet(Cart!In(f)) /\ Cardinality(Cart!In(f)) \in Nat
  BY <1>1, FS_Subset, FS_CardinalityType DEF Cart!In
<1>4. Total(f, Variants) \in Nat
  BY <1>1, <1>2, TotalType
<1>5. Units(f, Variants) \in SUBSET (Variants \X (1..MaxQuantity))
  BY <1>1, <1>2 DEF Units
<1>6. IsFiniteSet(1..MaxQuantity) /\ Cardinality(1..MaxQuantity) = MaxQuantity
  BY <1>1, FirstN
<1>7. /\ IsFiniteSet(Variants \X (1..MaxQuantity))
      /\ Cardinality(Variants \X (1..MaxQuantity))
            = Cardinality(Variants) * MaxQuantity
  BY <1>1, <1>6, FS_Product
<1>8. Total(f, Variants) <= Cardinality(Variants) * MaxQuantity
  BY <1>5, <1>7, FS_Subset DEF Total
<1>9. Cardinality(Variants) \in Nat
  BY <1>1, FS_CardinalityType
<1>10. Cardinality(Variants) * MaxQuantity
         = MaxQuantity * Cardinality(Variants)
  BY <1>1, <1>9
<1> QED BY <1>2, <1>3, <1>4, <1>8, <1>10

\* One line of a cart changes: the total changes by the difference.
LEMMA CartPuts ==
  ASSUME Cart!CartAssumption, NEW f \in [Variants -> Cart!Amounts],
         NEW v \in Variants,
         NEW n \in Cart!Amounts
  PROVE  /\ [f EXCEPT ![v] = n] \in [Variants -> Cart!Amounts]
         /\ Total([f EXCEPT ![v] = n], Variants)
               = Total(f, Variants) + n - f[v]
         /\ f[v] > 0 \/ n = 0
               => Cardinality(Cart!In([f EXCEPT ![v] = n]))
                 <= Cardinality(Cart!In(f))
         /\ Cardinality(Cart!In([f EXCEPT ![v] = n]))
              <= Cardinality(Cart!In(f)) + 1
<1> DEFINE g == [f EXCEPT ![v] = n]
           S == Variants \ {v}
<1>1. g \in [Variants -> Cart!Amounts] /\ g[v] = n
      /\ \A w \in S : g[w] = f[w]
  OBVIOUS
<1>2. /\ \A w \in Variants : f[w] \in Nat /\ g[w] \in Nat
      /\ IsFiniteSet(Cart!In(f)) /\ Cardinality(Cart!In(f)) \in Nat
      /\ IsFiniteSet(Cart!In(g)) /\ Cardinality(Cart!In(g)) \in Nat
  BY <1>1, CartHolds
<1>3. IsFiniteSet(S) /\ S \union {v} = Variants /\ v \notin S
  BY FS_Subset DEF Cart!CartAssumption
<1> HIDE DEF g, S
<1>4. /\ Total(f, S \union {v}) = Total(f, S) + f[v]
      /\ Total(g, S \union {v}) = Total(g, S) + g[v]
  BY <1>2, <1>3, TotalAdd
<1>5. Total(f, S) = Total(g, S)
  BY <1>1, TotalAgree
<1>6. Total(f, S) \in Nat
  BY <1>2, <1>3, TotalType
<1>7. Total(g, Variants) = Total(f, Variants) + n - f[v]
  <2>1. /\ Total(f, Variants) = Total(f, S) + f[v]
        /\ Total(g, Variants) = Total(f, S) + n
    BY <1>1, <1>3, <1>4, <1>5
  <2>2. f[v] \in Nat /\ n \in Nat
    BY <1>1, <1>2
  <2> QED BY <1>6, <2>1, <2>2
<1>8. ASSUME f[v] > 0 \/ n = 0
      PROVE  Cardinality(Cart!In(g)) <= Cardinality(Cart!In(f))
  <2>1. Cart!In(g) \in SUBSET Cart!In(f)
    BY <1>1, <1>3, <1>8 DEF Cart!In
  <2> QED BY <1>2, <2>1, FS_Subset
<1>9. Cardinality(Cart!In(g)) <= Cardinality(Cart!In(f)) + 1
  <2>1. Cart!In(g) \in SUBSET (Cart!In(f) \union {v})
    BY <1>1, <1>3 DEF Cart!In
  <2>2. /\ IsFiniteSet(Cart!In(f) \union {v})
        /\ Cardinality(Cart!In(f) \union {v}) = IF v \in Cart!In(f)
             THEN Cardinality(Cart!In(f))
                                           ELSE Cardinality(Cart!In(f)) + 1
    BY <1>2, FS_AddElement
  <2>3. Cardinality(Cart!In(g)) <= Cardinality(Cart!In(f) \union {v})
    BY <2>1, <2>2, FS_Subset
  <2> QED BY <1>2, <2>2, <2>3
<1> QED BY <1>1, <1>7, <1>8, <1>9 DEF g

\* Lines are taken out: the total changes by what they held.
LEMMA CartDrops ==
  ASSUME Cart!CartAssumption, NEW f \in [Variants -> Cart!Amounts], NEW out,
         NEW g, g = [v \in Variants |-> IF v \in out THEN 0 ELSE f[v]],
         out \subseteq Variants
  PROVE  /\ g \in [Variants -> Cart!Amounts]
         /\ Total(g, Variants) = Total(f, Variants) - Total(f, out)
         /\ Cardinality(Cart!In(g)) <= Cardinality(Cart!In(f))
<1>1. g \in [Variants -> Cart!Amounts]
  BY DEF Cart!CartAssumption, Cart!Amounts
<1>2. /\ \A v \in out : g[v] = 0 /\ v \in Variants
      /\ \A v \in Variants \ out : g[v] = f[v]
  OBVIOUS
<1>3. /\ \A v \in Variants : f[v] \in Nat /\ g[v] \in Nat
      /\ IsFiniteSet(Cart!In(f)) /\ Total(f, Variants) \in Nat
      /\ Total(g, Variants) \in Nat
  BY <1>1, CartHolds
<1>4. IsFiniteSet(Variants) /\ IsFiniteSet(out)
  BY FS_Subset DEF Cart!CartAssumption
<1>5. /\ Total(f, Variants \ out) = Total(f, Variants) - Total(f, out)
      /\ Total(g, Variants \ out) = Total(g, Variants) - Total(g, out)
  BY <1>3, <1>4, TotalDifference
<1>6. Total(f, Variants \ out) = Total(g, Variants \ out)
  BY <1>2, TotalAgree
<1>7. Total(g, out) = 0
  BY <1>2, TotalZero
<1>8. Total(f, out) \in Nat
  BY <1>3, <1>4, TotalType
<1>9. Cart!In(g) \in SUBSET Cart!In(f)
  BY <1>2, <1>3 DEF Cart!In
<1>10. Cardinality(Cart!In(g)) <= Cardinality(Cart!In(f))
  BY <1>3, <1>9, FS_Subset
<1> QED BY <1>1, <1>3, <1>5, <1>6, <1>7, <1>8, <1>10

LEMMA CartEmpty ==
  ASSUME Cart!CartAssumption
  PROVE  /\ Cart!Empty \in [Variants -> Cart!Amounts]
         /\ Cart!In(Cart!Empty) = {}
         /\ Cardinality(Cart!In(Cart!Empty)) = 0
         /\ Total(Cart!Empty, Variants) = 0
<1>1. Cart!Empty \in [Variants -> Cart!Amounts] /\ \A v \in Variants :
        Cart!Empty[v] = 0
  BY DEF Cart!Empty, Cart!Amounts, Cart!CartAssumption
<1>2. Cart!In(Cart!Empty) = {}
  BY <1>1 DEF Cart!In
<1> QED BY <1>1, <1>2, TotalZero, FS_EmptySet

\* The properties are parts of the invariant.
LEMMA CartProperties ==
  ASSUME Cart!CartAssumption, CartInv
  PROVE  Cart!TypeOK /\ Cart!TotalMatches
<1>1. Cart!TotalMatches
  BY DEF CartInv, CartRows, Cart!TotalMatches
<1>2. ASSUME NEW k \in Cart!Carts
      PROVE  /\ total[k] \in 0..(MaxQuantity * Cardinality(Variants))
             /\ state[k] \in {"none", "deleted"} => items[k] = Cart!Empty
             /\ Cardinality(Cart!In(items[k])) <= MaxItems
  <2>1. /\ items[k] \in [Variants -> Cart!Amounts]
        /\ total[k] = Total(items[k], Variants)
        /\ state[k] \in {"none", "deleted"} => items[k] = Cart!Empty
        /\ Cardinality(Cart!In(items[k])) <= MaxItems
    BY DEF CartInv, CartTypes, CartRows
  <2>2. /\ Total(items[k], Variants) \in Nat
        /\ Total(items[k], Variants) <= MaxQuantity * Cardinality(Variants)
    BY <2>1, CartHolds
  <2>3. MaxQuantity \in Nat /\ Cardinality(Variants) \in Nat
    BY FS_CardinalityType DEF Cart!CartAssumption
  <2> DEFINE top == MaxQuantity * Cardinality(Variants)
  <2>4. top \in Nat
    BY <2>3
  <2>5. total[k] \in Nat /\ total[k] <= top
    BY <2>1, <2>2
  <2> HIDE DEF top
  <2>6. total[k] \in 0..top
    BY <2>4, <2>5
  <2> QED BY <2>1, <2>6 DEF top
<1>3. Cart!TypeOK
  BY <1>2 DEF CartInv, CartTypes, Cart!TypeOK, CartStates, CartShelves
<1> QED BY <1>1, <1>3

LEMMA CartInit ==
  ASSUME Cart!CartAssumption
  PROVE  Cart!Init => CartInv
<1> SUFFICES ASSUME Cart!Init PROVE CartInv
  OBVIOUS
<1>1. \A c \in Calls : cartCall[c] = [step |-> "idle"]
  BY DEF Cart!Init, Cart!Idle
<1>2. CartTypes
  <2>1. stock \in [Variants -> 0..MaxStock]
    BY DEF Cart!Init, Cart!CartAssumption
  <2>2. cartCall \in [Calls -> CartCalls]
    BY DEF Cart!Init, Cart!Idle, CartCalls
  <2> QED BY <2>1, <2>2, CartEmpty
             DEF Cart!Init, CartTypes, CartStates, CartShelves
<1>3. CartRows
  BY CartEmpty DEF Cart!Init, CartRows, Cart!CartAssumption
<1>4. CartLocks
  BY <1>1 DEF CartLocks
<1> QED BY <1>2, <1>3, <1>4 DEF CartInv

\* A row that nobody else has locked changes.
LEMMA CartChanges ==
  ASSUME Cart!CartAssumption, CartInv, NEW k \in Cart!Carts,
         NEW f \in [Variants -> Cart!Amounts], NEW s \in CartStates,
         state' = [state EXCEPT ![k] = s],
         items' = [items EXCEPT ![k] = f],
         total' = [total EXCEPT ![k] = Total(f, Variants)],
         s \in {"none", "deleted"} => f = Cart!Empty,
         Cardinality(Cart!In(f)) <= MaxItems,
         stock' \in [Variants -> 0..MaxStock],
         shelf' \in [Variants -> CartShelves],
         cartCall' \in [Calls -> CartCalls],
         \A d \in Calls : cartCall'[d].step = "locked" =>
            cartCall'[d] = cartCall[d] /\ cartCall[d].cart # k
  PROVE  CartInv'
<1>0. /\ state \in [Cart!Carts -> CartStates]
      /\ items \in [Cart!Carts -> [Variants -> Cart!Amounts]]
      /\ total \in [Cart!Carts -> Nat]
      /\ \A d \in Calls : cartCall[d].step = "locked"
           => cartCall[d].cart \in Cart!Carts
  BY DEF CartInv, CartTypes, CartCalls
<1>1. Total(f, Variants) \in Nat
  BY CartHolds
<1>2. /\ state'[k] = s /\ items'[k] = f /\ total'[k] = Total(f, Variants)
      /\ \A j \in Cart!Carts : j # k => /\ state'[j] = state[j]
                                        /\ items'[j] = items[j]
                                        /\ total'[j] = total[j]
  BY <1>0
<1>3. CartTypes'
  BY <1>0, <1>1 DEF CartTypes
<1>4. CartRows'
  <2> SUFFICES ASSUME NEW j \in Cart!Carts
               PROVE  /\ state'[j] \in {"none", "deleted"}
                           => items'[j] = Cart!Empty
                      /\ Cardinality(Cart!In(items'[j])) <= MaxItems
                      /\ total'[j] = Total(items'[j], Variants)
    BY DEF CartRows, Cart!Empty, Cart!In
  <2>1. CASE j = k
    BY <1>2, <2>1
  <2>2. CASE j # k
    BY <1>2, <2>2 DEF CartRows, CartInv
  <2> QED BY <2>1, <2>2
<1>5. CartLocks'
  <2>1. ASSUME NEW c \in Calls, cartCall'[c].step = "locked"
        PROVE  /\ cartCall'[c].items = items'[cartCall'[c].cart]
               /\ cartCall'[c].total = total'[cartCall'[c].cart]
               /\ state'[cartCall'[c].cart] \in {"open", "out"}
               /\ cartCall'[c].op = "edit"
                    => cartCall'[c].items[cartCall'[c].variant] > 0
    <3>1. /\ cartCall'[c] = cartCall[c] /\ cartCall[c].cart # k
          /\ cartCall[c].cart \in Cart!Carts
          /\ cartCall[c].step = "locked"
      BY <1>0, <2>1
    <3> QED BY <1>2, <3>1 DEF CartLocks, CartInv
  <2>2. \A c, d \in Calls :
           /\ cartCall'[c].step = "locked" /\ cartCall'[d].step = "locked"
           /\ cartCall'[c].cart = cartCall'[d].cart
           => c = d
    BY DEF CartLocks, CartInv
  <2> QED BY <2>1, <2>2 DEF CartLocks
<1> QED BY <1>3, <1>4, <1>5 DEF CartInv

\* The rows stay as they are; the calls, but for one, as well.
LEMMA CartKeeps ==
  ASSUME Cart!CartAssumption, CartInv, UNCHANGED <<state, items, total>>,
         stock' \in [Variants -> 0..MaxStock],
         shelf' \in [Variants -> CartShelves],
         cartCall' \in [Calls -> CartCalls],
         \A d \in Calls : cartCall'[d].step = "locked"
           => cartCall'[d] = cartCall[d]
  PROVE  CartInv'
<1>1. CartTypes'
  BY DEF CartInv, CartTypes
<1>2. CartRows'
  BY DEF CartInv, CartRows, Cart!Empty, Cart!In
<1>3. CartLocks'
  BY DEF CartInv, CartLocks
<1> QED BY <1>1, <1>2, <1>3 DEF CartInv

LEMMA CartCallFields ==
  ASSUME NEW x \in CartCalls
  PROVE  /\ x.step \in {"idle", "insert", "find", "fill", "locked"}
         /\ x.step \in {"insert", "find", "fill"} =>
               x.variant \in Variants /\ x.quantity \in Cart!Amounts \ {0}
         /\ x.step = "locked" =>
               /\ x.cart \in Cart!Carts /\ x.variant \in Variants
               /\ x.quantity \in Cart!Amounts
               /\ x.items \in [Variants -> Cart!Amounts]
BY DEF CartCalls

\* Taking the lock: nobody else has it, and what is read is the row.
LEMMA CartTakes ==
  ASSUME Cart!CartAssumption, CartInv, NEW c \in Calls, NEW k \in Cart!Carts,
         NEW op \in {"add", "edit", "clean"}, NEW v \in Variants,
         NEW q \in Cart!Amounts, state[k] \in {"open", "out"},
         op = "edit" => items[k][v] > 0, Cart!Lock(c, k, op, v, q)
  PROVE  CartInv'
<1> DEFINE x == [step |-> "locked", op |-> op, cart |-> k, variant |-> v,
                 quantity |-> q, items |-> items[k], total |-> total[k]]
<1>0. CartTypes
  BY DEF CartInv
<1>1. /\ Cart!RowFree(k) /\ cartCall' = [cartCall EXCEPT ![c] = x]
      /\ UNCHANGED <<state, items, total, stock, shelf>>
  BY DEF Cart!Lock
<1>2. x \in [step : {"locked"}, op : {"add", "edit", "clean"},
             cart : Cart!Carts,
             variant : Variants, quantity : Cart!Amounts,
             items : [Variants -> Cart!Amounts], total : Nat]
  BY <1>0 DEF CartTypes
<1>3. x \in CartCalls
  BY <1>2 DEF CartCalls
<1>4. /\ cartCall' \in [Calls -> CartCalls] /\ cartCall'[c] = x
      /\ \A d \in Calls : d # c => cartCall'[d] = cartCall[d]
  BY <1>0, <1>1, <1>3 DEF CartTypes
<1>5. \A d \in Calls : cartCall[d].step = "locked" => cartCall[d].cart # k
  BY <1>1 DEF Cart!RowFree
<1>6. CartTypes'
  BY <1>0, <1>1, <1>4 DEF CartTypes
<1>7. CartRows'
  BY <1>1 DEF CartInv, CartRows, Cart!Empty, Cart!In
<1>8. CartLocks'
  <2>1. ASSUME NEW d \in Calls, cartCall'[d].step = "locked"
        PROVE  /\ cartCall'[d].items = items'[cartCall'[d].cart]
               /\ cartCall'[d].total = total'[cartCall'[d].cart]
               /\ state'[cartCall'[d].cart] \in {"open", "out"}
               /\ cartCall'[d].op = "edit"
                    => cartCall'[d].items[cartCall'[d].variant] > 0
    BY <1>1, <1>4, <2>1 DEF CartInv, CartLocks
  <2>2. \A d, e \in Calls :
           /\ cartCall'[d].step = "locked" /\ cartCall'[e].step = "locked"
           /\ cartCall'[d].cart = cartCall'[e].cart
           => d = e
    BY <1>4, <1>5 DEF CartInv, CartLocks
  <2> QED BY <2>1, <2>2 DEF CartLocks
<1> QED BY <1>6, <1>7, <1>8 DEF CartInv

LEMMA CartStep ==
  ASSUME Cart!CartAssumption
  PROVE  CartInv /\ [Cart!Next]_Cart!vars => CartInv'
<1> SUFFICES ASSUME CartInv, [Cart!Next]_Cart!vars PROVE CartInv'
  OBVIOUS
<1>0. /\ state \in [Cart!Carts -> CartStates]
      /\ items \in [Cart!Carts -> [Variants -> Cart!Amounts]]
      /\ total \in [Cart!Carts -> Nat]
      /\ stock \in [Variants -> 0..MaxStock]
      /\ shelf \in [Variants -> CartShelves]
      /\ cartCall \in [Calls -> CartCalls]
  BY DEF CartInv, CartTypes
<1>1. ASSUME NEW c \in Calls, Cart!Done(c)
      PROVE  /\ cartCall' \in [Calls -> CartCalls]
             /\ \A d \in Calls : cartCall'[d].step = "locked" =>
                   cartCall'[d] = cartCall[d] /\ d # c
  <2>1. Cart!Idle \in CartCalls /\ Cart!Idle.step = "idle"
    BY DEF Cart!Idle, CartCalls
  <2> QED BY <1>0, <1>1, <2>1 DEF Cart!Done
<1>2. ASSUME NEW c \in Calls, Cart!Refuse(c) PROVE CartInv'
  BY <1>0, <1>1, <1>2, CartKeeps DEF Cart!Refuse
<1>3. ASSUME NEW c \in Calls, NEW v \in Variants, NEW q \in Cart!Amounts \ {0},
             Cart!Add(c, v, q)
      PROVE  CartInv'
  <2> DEFINE x == [step |-> IF Cart!Open = {} THEN "insert" ELSE "find",
                   variant |-> v, quantity |-> q]
  <2>1. x \in [step : {"insert", "find", "fill"}, variant : Variants,
               quantity : Cart!Amounts \ {0}]
    OBVIOUS
  <2>2. x \in CartCalls /\ x.step # "locked"
    BY <2>1 DEF CartCalls
  <2>3. cartCall' = [cartCall EXCEPT ![c] = x]
        /\ UNCHANGED <<state, items, total, stock, shelf>>
    BY <1>3 DEF Cart!Add
  <2> HIDE DEF x
  <2>4. cartCall' \in [Calls -> CartCalls]
        /\ \A d \in Calls : cartCall'[d].step = "locked"
             => cartCall'[d] = cartCall[d]
    BY <1>0, <2>2, <2>3
  <2> QED BY <1>0, <2>3, <2>4, CartKeeps
<1>4. ASSUME NEW c \in Calls, Cart!Insert(c) PROVE CartInv'
  <2>1. CASE Cart!Refuse(c)
    BY <1>2, <2>1
  <2>2. CASE cartCall' = [cartCall EXCEPT ![c].step = "fill"]
             /\ UNCHANGED <<state, items, total, stock, shelf>>
    <3> DEFINE x == [cartCall[c] EXCEPT !.step = "fill"]
    <3>1. cartCall[c] \in [step : {"insert", "find", "fill"},
                           variant : Variants,
                       quantity : Cart!Amounts \ {0}]
      BY <1>0, <1>4 DEF Cart!Insert, CartCalls
    <3>2. x \in [step : {"insert", "find", "fill"}, variant : Variants,
                 quantity : Cart!Amounts \ {0}] /\ x.step = "fill"
      BY <3>1
    <3>3. x \in CartCalls
      BY <3>2 DEF CartCalls
    <3>4. cartCall' = [cartCall EXCEPT ![c] = x]
      BY <2>2
    <3> HIDE DEF x
    <3>5. cartCall' \in [Calls -> CartCalls]
          /\ \A d \in Calls : cartCall'[d].step = "locked"
               => cartCall'[d] = cartCall[d]
      BY <1>0, <3>2, <3>3, <3>4
    <3> QED BY <1>0, <2>2, <3>5, CartKeeps
  <2> QED BY <1>4, <2>1, <2>2 DEF Cart!Insert
<1>5. ASSUME NEW c \in Calls, Cart!FillNew(c) PROVE CartInv'
  <2> DEFINE v == cartCall[c].variant
             q == cartCall[c].quantity
  <2>1. v \in Variants /\ q \in Cart!Amounts
    BY <1>0, <1>5, CartCallFields DEF Cart!FillNew
  <2>2. CASE Cart!Refuse(c)
    BY <1>2, <2>2
  <2>3. CASE /\ \E k \in Cart!New :
                   /\ state' = [state EXCEPT ![k] = "open"]
                   /\ items' = [items EXCEPT ![k][v] = q]
                   /\ total' = [total EXCEPT ![k] = q]
             /\ Cart!Done(c) /\ UNCHANGED <<stock, shelf>>
    <3>1. PICK k \in Cart!Carts : /\ state[k] = "none"
                                  /\ state' = [state EXCEPT ![k] = "open"]
                                  /\ items' = [items EXCEPT ![k][v] = q]
                                  /\ total' = [total EXCEPT ![k] = q]
      BY <2>3 DEF Cart!New
    <3> DEFINE f == [Cart!Empty EXCEPT ![v] = q]
    <3> HIDE DEF v, q
    <3>2. items[k] = Cart!Empty
      BY <3>1 DEF CartInv, CartRows
    <3>3. /\ f \in [Variants -> Cart!Amounts]
          /\ Total(f, Variants)
               = Total(Cart!Empty, Variants) + q - Cart!Empty[v]
          /\ Cardinality(Cart!In(f)) <= Cardinality(Cart!In(Cart!Empty)) + 1
      BY <2>1, CartEmpty, CartPuts
    <3>4. Cart!Empty[v] = 0 /\ q \in Nat
      BY <2>1, CartHolds DEF Cart!Empty, Cart!Amounts
    <3>5. Total(f, Variants) = q /\ Cardinality(Cart!In(f)) <= 1
      BY <3>3, <3>4, CartEmpty
    <3>6. items' = [items EXCEPT ![k] = f]
      BY <1>0, <3>1, <3>2
    <3> HIDE DEF f
    <3>7. total' = [total EXCEPT ![k] = Total(f, Variants)]
      BY <3>1, <3>5
    <3>8. \A d \in Calls : cartCall[d].step = "locked" => cartCall[d].cart # k
      BY <3>1 DEF CartInv, CartLocks
    <3>9. cartCall' \in [Calls -> CartCalls]
          /\ \A d \in Calls : cartCall'[d].step = "locked" =>
                cartCall'[d] = cartCall[d] /\ cartCall[d].cart # k
      BY <1>1, <2>3, <3>8
    <3>10. Cardinality(Cart!In(f)) <= MaxItems
      <4>1. Cardinality(Cart!In(f)) \in Nat
        BY <3>3, CartHolds DEF f
      <4> QED BY <3>5, <4>1 DEF Cart!CartAssumption
    <3>11. "open" \in CartStates /\ "open" \notin {"none", "deleted"}
      BY DEF CartStates
    <3> QED BY <1>0, <2>3, <3>1, <3>3, <3>6, <3>7, <3>9, <3>10, <3>11,
               CartChanges DEF f
  <2> QED BY <1>5, <2>2, <2>3 DEF Cart!FillNew
<1>6. ASSUME NEW c \in Calls, Cart!Find(c) PROVE CartInv'
  <2>1. CASE Cart!Refuse(c)
    BY <1>2, <2>1
  <2>2. CASE \E k \in Cart!Open : Cart!Lock(c, k, "add", cartCall[c].variant,
                                  cartCall[c].quantity)
    <3>1. PICK k \in Cart!Carts : state[k] = "open" /\ Cart!Lock(c, k, "add",
                             cartCall[c].variant, cartCall[c].quantity)
      BY <2>2 DEF Cart!Open
    <3>2. cartCall[c].variant \in Variants
          /\ cartCall[c].quantity \in Cart!Amounts
      BY <1>0, <1>6, CartCallFields DEF Cart!Find
    <3> QED BY <3>1, <3>2, CartTakes
  <2> QED BY <1>6, <2>1, <2>2 DEF Cart!Find
<1>7. ASSUME NEW k \in Cart!Carts, NEW v \in Variants, items[k][v] > 0
      PROVE  state[k] \in {"open", "out"}
  <2>1. items[k] # Cart!Empty
    BY <1>0, <1>7 DEF Cart!Empty
  <2>2. state[k] \notin {"none", "deleted"}
    BY <2>1 DEF CartInv, CartRows
  <2> QED BY <1>0, <2>2 DEF CartStates
<1>8. ASSUME NEW c \in Calls, NEW k \in Cart!Carts, NEW v \in Variants,
             NEW q \in Cart!Amounts, Cart!Edit(c, k, v, q)
      PROVE  CartInv'
  BY <1>7, <1>8, CartTakes DEF Cart!Edit
<1>9. ASSUME NEW c \in Calls, NEW k \in Cart!Carts, NEW v \in Variants,
             Cart!DeleteOne(c, k, v)
      PROVE  CartInv'
  <2>1. 0 \in Cart!Amounts
    BY DEF Cart!Amounts, Cart!CartAssumption
  <2> QED BY <1>7, <1>9, <2>1, CartTakes DEF Cart!DeleteOne
<1>10. ASSUME NEW c \in Calls, NEW k \in Cart!Carts, Cart!CleanUp(c, k)
       PROVE  CartInv'
  <2>1. Variants # {}
    BY <1>10 DEF Cart!CleanUp, Cart!Removed, Cart!In
  <2>2. (CHOOSE v \in Variants : TRUE) \in Variants
    BY <2>1
  <2>3. 0 \in Cart!Amounts
    BY DEF Cart!Amounts, Cart!CartAssumption
  <2>4. state[k] \in {"open", "out"}
        /\ Cart!Lock(c, k, "clean", CHOOSE v \in Variants : TRUE, 0)
    BY <1>10 DEF Cart!CleanUp
  <2> QED BY <2>2, <2>3, <2>4, CartTakes
\* A handler that holds the lock writes the row.
<1>11. ASSUME NEW c \in Calls, cartCall[c].step = "locked", Cart!Done(c),
              UNCHANGED <<state, stock, shelf>>,
              NEW f \in [Variants -> Cart!Amounts],
              items' = [items EXCEPT ![cartCall[c].cart] = f],
              total' = [total EXCEPT ![cartCall[c].cart] = Total(f, Variants)],
              Cardinality(Cart!In(f)) <= MaxItems
       PROVE  CartInv'
  <2>1. PICK k \in Cart!Carts : k = cartCall[c].cart
    BY <1>0, <1>11, CartCallFields
  <2>2. state[k] \in {"open", "out"} /\ state[k] \in CartStates
    BY <1>0, <1>11, <2>1 DEF CartInv, CartLocks
  <2>3. state' = [state EXCEPT ![k] = state[k]]
    BY <1>0, <1>11
  <2>4. cartCall' \in [Calls -> CartCalls]
        /\ \A d \in Calls : cartCall'[d].step = "locked"
             => cartCall'[d] = cartCall[d]
    BY <1>1, <1>11
  <2>5. \A d \in Calls : cartCall'[d].step = "locked" => cartCall[d].cart # k
    BY <1>1, <1>11, <2>1 DEF CartInv, CartLocks
  <2> QED BY <1>0, <1>11, <2>1, <2>2, <2>3, <2>4, <2>5, CartChanges
<1>12. ASSUME NEW c \in Calls, Cart!Write(c) PROVE CartInv'
  <2>1. PICK k \in Cart!Carts, v \in Variants, f
          \in [Variants -> Cart!Amounts] :
           /\ k = cartCall[c].cart /\ v = cartCall[c].variant
           /\ f = cartCall[c].items
           /\ f = items[k] /\ cartCall[c].total = total[k]
           /\ cartCall[c].step = "locked" /\ cartCall[c].op \in {"add", "edit"}
    BY <1>0, <1>12, CartCallFields DEF Cart!Write, CartInv, CartLocks
  <2> DEFINE now == IF cartCall[c].op = "add" THEN f[v] + cartCall[c].quantity
                    ELSE cartCall[c].quantity
  <2>2. cartCall[c].quantity \in Cart!Amounts
    BY <1>0, <2>1, CartCallFields
  <2>3. now \in Cart!Amounts
    <3>1. f[v] \in Nat /\ cartCall[c].quantity \in Nat
      BY <2>1, <2>2, CartHolds DEF Cart!Amounts
    <3>2. now <= MaxQuantity
      BY <1>12, <2>1 DEF Cart!Write
    <3> QED BY <3>1, <3>2 DEF Cart!Amounts, Cart!CartAssumption
  <2>4. \/ Cart!Refuse(c)
        \/ /\ items' = [items EXCEPT ![k][v] = now]
           /\ total' = [total EXCEPT ![k] = total[k] + now - f[v]]
           /\ cartCall[c].op = "add" => Cart!RoomFor(f, v)
           /\ Cart!Done(c) /\ UNCHANGED <<state, stock, shelf>>
    BY <1>12, <2>1 DEF Cart!Write
  <2>5. cartCall[c].op = "edit" => f[v] > 0
    BY <2>1 DEF CartInv, CartLocks
  <2> HIDE DEF now
  <2>6. CASE /\ items' = [items EXCEPT ![k][v] = now]
             /\ total' = [total EXCEPT ![k] = total[k] + now - f[v]]
             /\ cartCall[c].op = "add" => Cart!RoomFor(f, v)
             /\ Cart!Done(c) /\ UNCHANGED <<state, stock, shelf>>
    <3> DEFINE g == [f EXCEPT ![v] = now]
    <3>1. /\ g \in [Variants -> Cart!Amounts]
          /\ Total(g, Variants) = Total(f, Variants) + now - f[v]
          /\ f[v] > 0 => Cardinality(Cart!In(g)) <= Cardinality(Cart!In(f))
          /\ Cardinality(Cart!In(g)) <= Cardinality(Cart!In(f)) + 1
      BY <2>3, CartPuts
    <3>2. items' = [items EXCEPT ![k] = g]
      BY <1>0, <2>1, <2>6
    <3>3. f[v] > 0 \/ Cardinality(Cart!In(f)) < MaxItems
      BY <2>1, <2>5, <2>6 DEF Cart!RoomFor
    <3>4. Cardinality(Cart!In(f)) <= MaxItems
      BY <2>1 DEF CartInv, CartRows
    <3> HIDE DEF g
    <3>5. Cardinality(Cart!In(f)) \in Nat /\ Cardinality(Cart!In(g)) \in Nat
      BY <3>1, CartHolds
    <3>6. Cardinality(Cart!In(g)) <= MaxItems
      BY <3>1, <3>3, <3>4, <3>5 DEF Cart!CartAssumption
    <3>7. Total(f, Variants) = total[k]
      BY <2>1 DEF CartInv, CartRows
    <3>8. total' = [total EXCEPT ![k] = Total(g, Variants)]
      BY <2>6, <3>1, <3>7
    <3> QED BY <1>11, <2>1, <2>6, <3>1, <3>2, <3>6, <3>8
  <2> QED BY <1>2, <2>4, <2>6
<1>13. ASSUME NEW c \in Calls, Cart!WriteClean(c) PROVE CartInv'
  <2>1. PICK k \in Cart!Carts, f \in [Variants -> Cart!Amounts] :
           /\ k = cartCall[c].cart /\ f = cartCall[c].items /\ f = items[k]
           /\ cartCall[c].step = "locked"
    BY <1>0, <1>13, CartCallFields DEF Cart!WriteClean, CartInv, CartLocks
  <2> DEFINE out == Cart!Removed(f)
             g == [v \in Variants |-> IF v \in out THEN 0 ELSE f[v]]
  <2>2. /\ items' = [items EXCEPT ![k] =
                       [v \in Variants |-> IF v \in out THEN 0
                                           ELSE items[k][v]]]
        /\ total' = [total EXCEPT ![k] = total[k] - Total(f, out)]
        /\ Cart!Done(c) /\ UNCHANGED <<state, stock, shelf>>
    BY <1>0, <1>13, <2>1 DEF Cart!WriteClean
  <2>3. out \subseteq Variants
    BY DEF Cart!Removed, Cart!In
  <2>4. items' = [items EXCEPT ![k] = g]
    BY <2>1, <2>2
  <2> HIDE DEF out
  <2>5. /\ g \in [Variants -> Cart!Amounts]
        /\ Total(g, Variants) = Total(f, Variants) - Total(f, out)
        /\ Cardinality(Cart!In(g)) <= Cardinality(Cart!In(f))
    BY <2>3, CartDrops
  <2> HIDE DEF g
  <2>6. Cardinality(Cart!In(f)) <= MaxItems /\ Total(f, Variants) = total[k]
    BY <2>1 DEF CartInv, CartRows
  <2>7. Cardinality(Cart!In(f)) \in Nat /\ Cardinality(Cart!In(g)) \in Nat
    BY <2>5, CartHolds
  <2>8. Cardinality(Cart!In(g)) <= MaxItems
    BY <2>5, <2>6, <2>7 DEF Cart!CartAssumption
  <2>9. total' = [total EXCEPT ![k] = Total(g, Variants)]
    BY <2>2, <2>5, <2>6
  <2> QED BY <1>11, <2>1, <2>2, <2>4, <2>5, <2>8, <2>9
<1>14. ASSUME NEW k \in Cart!Carts, Cart!RowFree(k)
       PROVE  \A d \in Calls : cartCall[d].step = "locked"
                => cartCall[d].cart # k
  BY <1>14 DEF Cart!RowFree
<1>15. ASSUME NEW k \in Cart!Carts, Cart!DeleteAll(k) PROVE CartInv'
  <2>1. /\ Cart!RowFree(k) /\ state' = [state EXCEPT ![k] = "deleted"]
        /\ items' = [items EXCEPT ![k] = Cart!Empty]
        /\ total' = [total EXCEPT ![k] = 0]
        /\ UNCHANGED <<stock, shelf, cartCall>>
    BY <1>15 DEF Cart!DeleteAll
  <2>2. /\ Cart!Empty \in [Variants -> Cart!Amounts]
        /\ Total(Cart!Empty, Variants) = 0
        /\ Cardinality(Cart!In(Cart!Empty)) <= MaxItems
        /\ "deleted" \in CartStates
    BY CartEmpty DEF CartStates, Cart!CartAssumption
  <2>3. \A d \in Calls : cartCall'[d].step = "locked" =>
           cartCall'[d] = cartCall[d] /\ cartCall[d].cart # k
    BY <1>14, <2>1
  <2> QED BY <1>0, <2>1, <2>2, <2>3, CartChanges
<1>16. ASSUME NEW k \in Cart!Carts, Cart!CheckOut(k) PROVE CartInv'
  <2>1. /\ Cart!RowFree(k) /\ state' = [state EXCEPT ![k] = "out"]
        /\ stock' = [v \in Variants |-> stock[v] - items[k][v]]
        /\ UNCHANGED <<items, total, shelf, cartCall>>
        /\ Cart!Accepted(items[k])
    BY <1>16 DEF Cart!CheckOut
  <2>2. /\ items' = [items EXCEPT ![k] = items[k]]
        /\ total' = [total EXCEPT ![k] = Total(items[k], Variants)]
        /\ Cardinality(Cart!In(items[k])) <= MaxItems
    BY <1>0, <2>1 DEF CartInv, CartRows
  <2>3. stock' \in [Variants -> 0..MaxStock]
    <3> SUFFICES ASSUME NEW v \in Variants
                 PROVE  stock[v] - items[k][v] \in 0..MaxStock
      BY <2>1
    <3>1. items[k][v] \in Nat /\ stock[v] \in 0..MaxStock
      BY <1>0, CartHolds
    <3>2. items[k][v] > 0 => stock[v] >= items[k][v]
      BY <2>1 DEF Cart!Accepted, Cart!In, Cart!Orderable
    <3> QED BY <3>1, <3>2 DEF Cart!CartAssumption
  <2>4. \A d \in Calls : cartCall'[d].step = "locked" =>
           cartCall'[d] = cartCall[d] /\ cartCall[d].cart # k
    BY <1>14, <2>1
  <2>5. "out" \in CartStates /\ "out" \notin {"none", "deleted"}
        /\ items[k] \in [Variants -> Cart!Amounts]
    BY <1>0 DEF CartStates
  <2> QED BY <1>0, <2>1, <2>2, <2>3, <2>4, <2>5, CartChanges
<1>17. ASSUME NEW v \in Variants, NEW s \in CartShelves, Cart!Shelve(v, s)
       PROVE  CartInv'
  <2>1. /\ shelf' = [shelf EXCEPT ![v] = s]
        /\ UNCHANGED <<state, items, total, stock, cartCall>>
    BY <1>17 DEF Cart!Shelve
  <2>2. shelf' \in [Variants -> CartShelves]
    BY <1>0, <2>1
  <2> QED BY <1>0, <2>1, <2>2, CartKeeps
<1>18. ASSUME NEW v \in Variants, Cart!SellElsewhere(v) PROVE CartInv'
  <2>1. /\ stock' = [stock EXCEPT ![v] = @ - 1] /\ stock[v] > 0
        /\ UNCHANGED <<state, items, total, shelf, cartCall>>
    BY <1>18 DEF Cart!SellElsewhere
  <2>2. stock' \in [Variants -> 0..MaxStock]
    BY <1>0, <2>1 DEF Cart!CartAssumption
  <2> QED BY <1>0, <2>1, <2>2, CartKeeps
<1>19. CASE UNCHANGED Cart!vars
  BY <1>0, <1>19, CartKeeps DEF Cart!vars
<1> QED BY <1>3, <1>4, <1>5, <1>6, <1>8, <1>9, <1>10, <1>12, <1>13, <1>15,
           <1>16, <1>17, <1>18, <1>19 DEF Cart!Next, CartShelves

-----------------------------------------------------------------------------
(* One call: between the count of the open carts and the insert none is    *)
(* opened.                                                                 *)
CartOneInv ==
    /\ CartTypes
    /\ \A j, k \in Cart!Carts : state[j] = "open" /\ state[k] = "open" => j = k
    /\ \A c \in Calls : cartCall[c].step \in {"insert", "fill"} =>
          \A k \in Cart!Carts : state[k] # "open"

LEMMA CartOne ==
  ASSUME CartOneInv
  PROVE  Cart!OneOpenCart
<1> DEFINE S == {k \in Cart!Carts : state[k] = "open"}
<1>1. CASE S = {}
  BY <1>1, FS_EmptySet DEF Cart!OneOpenCart
<1>2. CASE S # {}
  <2>1. PICK k \in S : TRUE
    BY <1>2
  <2>2. S = {k}
    BY <2>1 DEF CartOneInv
  <2> HIDE DEF S
  <2>3. Cardinality(S) = 1
    BY <2>2, FS_Singleton
  <2> QED BY <2>3 DEF Cart!OneOpenCart, S
<1> QED BY <1>1, <1>2

LEMMA CartOneInit ==
  ASSUME Cart!CartAssumption
  PROVE  Cart!Init => CartOneInv
BY CartInit DEF CartInv, CartOneInv, Cart!Init

LEMMA CartOneStep ==
  ASSUME Cart!CartAssumption, NEW c, Calls = {c}
  PROVE  CartInv /\ CartOneInv /\ [Cart!Next]_Cart!vars => CartOneInv'
<1> SUFFICES ASSUME CartInv, CartOneInv, [Cart!Next]_Cart!vars
             PROVE  CartOneInv'
  OBVIOUS
<1>0. /\ state \in [Cart!Carts -> CartStates]
      /\ cartCall \in [Calls -> CartCalls]
      /\ \A k \in Cart!Carts : state[k] = "open" <=> k \in Cart!Open
  BY DEF CartInv, CartTypes, Cart!Open
<1>1. CartTypes'
  BY CartStep DEF CartInv
\* No cart is opened, and no handler goes past the count with one open.
<1>2. ASSUME \A k \in Cart!Carts : state'[k] = "open" => state[k] = "open",
             \/ \A k \in Cart!Carts : state'[k] # "open"
             \/ cartCall'[c].step \notin {"insert", "fill"}
             \/ cartCall'[c] = cartCall[c]
      PROVE  CartOneInv'
  BY <1>1, <1>2 DEF CartOneInv
<1>3. ASSUME Cart!Done(c) PROVE cartCall'[c].step = "idle"
  BY <1>0, <1>3 DEF Cart!Done, Cart!Idle
<1>4. ASSUME NEW v \in Variants, NEW q, Cart!Add(c, v, q) PROVE CartOneInv'
  <2>1. UNCHANGED state
        /\ (Cart!Open # {} => cartCall'[c].step \notin {"insert", "fill"})
    BY <1>0, <1>4 DEF Cart!Add
  <2> QED BY <1>0, <1>2, <2>1
<1>5. ASSUME Cart!Insert(c) PROVE CartOneInv'
  <2>1. UNCHANGED state /\ (Cart!Open = {} \/ Cart!Done(c))
    BY <1>5 DEF Cart!Insert, Cart!Refuse
  <2> QED BY <1>0, <1>2, <1>3, <2>1
<1>6. ASSUME Cart!FillNew(c) PROVE CartOneInv'
  <2>1. /\ \A k \in Cart!Carts : state[k] # "open" /\ Cart!Done(c)
        /\ \/ UNCHANGED state
           \/ \E k \in Cart!Carts : state' = [state EXCEPT ![k] = "open"]
    BY <1>6 DEF Cart!FillNew, CartOneInv, Cart!Refuse, Cart!New
  <2>2. ASSUME NEW k \in Cart!Carts, state' = [state EXCEPT ![k] = "open"]
        PROVE  \A i,
        j \in Cart!Carts : state'[i] = "open" /\ state'[j] = "open"
                                      => i = j
    BY <1>0, <2>1, <2>2
  <2>3. cartCall'[c].step = "idle"
    BY <1>3, <1>6 DEF Cart!FillNew, Cart!Refuse
  <2> QED BY <1>1, <2>1, <2>2, <2>3 DEF CartOneInv
<1>7. ASSUME NEW k, NEW op, NEW v, NEW q, Cart!Lock(c, k, op, v, q)
      PROVE  CartOneInv'
  <2>1. UNCHANGED state /\ cartCall'[c].step = "locked"
    BY <1>0, <1>7 DEF Cart!Lock
  <2> QED BY <1>2, <2>1
<1>8. ASSUME Cart!Find(c) PROVE CartOneInv'
  <2>1. CASE Cart!Refuse(c)
    BY <1>2, <1>3, <2>1 DEF Cart!Refuse
  <2>2. CASE \E k \in Cart!Open : Cart!Lock(c, k, "add", cartCall[c].variant,
                                  cartCall[c].quantity)
    BY <1>7, <2>2
  <2> QED BY <1>8, <2>1, <2>2 DEF Cart!Find
<1>9. ASSUME NEW k \in Cart!Carts,
             \/ \E v \in Variants : Cart!DeleteOne(c, k, v)
                                    \/ \E q \in Cart!Amounts :
                                         Cart!Edit(c, k, v, q)
             \/ Cart!CleanUp(c, k)
      PROVE  CartOneInv'
  BY <1>7, <1>9 DEF Cart!DeleteOne, Cart!Edit, Cart!CleanUp
<1>10. ASSUME Cart!Write(c) \/ Cart!WriteClean(c) PROVE CartOneInv'
  <2>1. UNCHANGED state /\ Cart!Done(c)
    BY <1>10 DEF Cart!Write, Cart!WriteClean, Cart!Refuse
  <2> QED BY <1>2, <1>3, <2>1
<1>11. ASSUME NEW k \in Cart!Carts, Cart!DeleteAll(k) \/ Cart!CheckOut(k)
       PROVE  CartOneInv'
  <2>1. /\ UNCHANGED cartCall
        /\ \/ state' = [state EXCEPT ![k] = "deleted"]
           \/ state' = [state EXCEPT ![k] = "out"]
    BY <1>11 DEF Cart!DeleteAll, Cart!CheckOut
  <2>2. \A j \in Cart!Carts : state'[j] = "open" => state[j] = "open"
    BY <1>0, <2>1
  <2> QED BY <1>2, <2>1, <2>2
<1>12. ASSUME NEW v,
              Cart!SellElsewhere(v) \/ \E s \in CartShelves : Cart!Shelve(v, s)
       PROVE  CartOneInv'
  BY <1>2, <1>12 DEF Cart!SellElsewhere, Cart!Shelve
<1>13. CASE UNCHANGED Cart!vars
  BY <1>2, <1>13 DEF Cart!vars
<1> QED BY <1>4, <1>5, <1>6, <1>8, <1>9, <1>10, <1>11, <1>12, <1>13
        DEF Cart!Next, CartShelves

-----------------------------------------------------------------------------
(***************************************************************************)
(* Categories and sub-categories.                                          *)
(***************************************************************************)
(* A sub-category is inserted under a category whose row is there: rows    *)
(* are never removed.                                                      *)
TaxonomyInv ==
    /\ Category!TypeOK
    /\ \A c \in Calls : categoryCall[c].step = "sub"
         => cat[categoryCall[c].of] # "none"

LEMMA TaxonomyInit ==
  ASSUME Category!TaxonomyAssumption
  PROVE  Category!Init => TaxonomyInv
  BY DEF Category!Init, TaxonomyInv, Category!TypeOK, Category!Inserts,
         Category!Idle, Category!Statuses, Category!None

LEMMA TaxonomyStep ==
  ASSUME Category!TaxonomyAssumption
  PROVE  TaxonomyInv /\ [Category!Next]_Category!vars => TaxonomyInv'
<1> SUFFICES ASSUME TaxonomyInv, [Category!Next]_Category!vars
             PROVE  TaxonomyInv'
  OBVIOUS
<1> USE DEF TaxonomyInv, Category!TypeOK, Category!TaxonomyAssumption,
            Category!Idle, Category!Statuses, Category!rows, Category!None
<1>1. ASSUME NEW c \in Calls, NEW n \in CatNames, Category!CheckCategory(c, n)
      PROVE  TaxonomyInv'
  <2>1. [step |-> "category", name |-> n] \in Category!Inserts
    BY DEF Category!Inserts
  <2> QED BY <1>1, <2>1 DEF Category!CheckCategory, Category!Begin
<1>2. ASSUME NEW c \in Calls, NEW n \in CatNames, Category!InsertCategory(c, n)
      PROVE  TaxonomyInv'
  <2>1. Category!Idle \in Category!Inserts
    BY DEF Category!Inserts
  <2> QED BY <1>2, <2>1 DEF Category!InsertCategory, Category!Done
<1>3. ASSUME NEW c \in Calls, NEW n \in SubNames, NEW k \in CatNames,
             Category!CheckSub(c, n, k)
      PROVE  TaxonomyInv'
  <2>1. [step |-> "sub", name |-> n, of |-> k] \in Category!Inserts
    BY DEF Category!Inserts
  <2> QED BY <1>3, <2>1 DEF Category!CheckSub, Category!Begin
<1>4. ASSUME NEW c \in Calls, NEW n \in SubNames, NEW k \in CatNames,
             Category!InsertSub(c, n, k)
      PROVE  TaxonomyInv'
  <2>1. Category!Idle \in Category!Inserts
    BY DEF Category!Inserts
  <2> QED BY <1>4, <2>1 DEF Category!InsertSub, Category!Done
<1>5. ASSUME NEW c \in Calls, Category!Refused(c) PROVE TaxonomyInv'
  <2>1. Category!Idle \in Category!Inserts
    BY DEF Category!Inserts
  <2> QED BY <1>5, <2>1 DEF Category!Refused, Category!Done
<1>6. ASSUME NEW k \in CatNames, Category!DeleteCategory(k) PROVE TaxonomyInv'
  BY <1>6 DEF Category!DeleteCategory
<1>7. ASSUME NEW n \in SubNames, Category!DeleteSubCategory(n)
      PROVE  TaxonomyInv'
  BY <1>7 DEF Category!DeleteSubCategory
<1>8. CASE UNCHANGED Category!vars
  BY <1>8 DEF Category!vars
<1> QED BY <1>1, <1>2, <1>3, <1>4, <1>5, <1>6, <1>7, <1>8 DEF Category!Next

(* What the one handler at work has seen is still so.                      *)
TaxonomySeen ==
    /\ \A c, d \in Calls : categoryCall[c] # Category!Idle
         /\ categoryCall[d] # Category!Idle => c = d
    /\ \A c \in Calls :
          /\ categoryCall[c].step = "category"
               => ~Category!Taken(cat, categoryCall[c].name)
          /\ categoryCall[c].step = "sub" =>
               /\ ~Category!Taken(sub, categoryCall[c].name)
               /\ cat[categoryCall[c].of] = "live"
TaxonomyTurnInv == TaxonomySeen /\ Category!NamesDiffer
  /\ Category!ParentIsLive

LEMMA TaxonomyTurnInit ==
  ASSUME Category!TaxonomyAssumption
  PROVE  Category!Init => TaxonomyTurnInv
  BY DEF Category!Init, TaxonomyTurnInv, TaxonomySeen, Category!NamesDiffer,
         Category!ParentIsLive, Category!Idle

LEMMA TaxonomyTurnStep ==
  ASSUME Category!TaxonomyAssumption
  PROVE  TaxonomyInv /\ TaxonomyTurnInv
           /\ [Category!Next /\ Category!InTurn]_Category!vars
            => TaxonomyTurnInv'
<1> SUFFICES ASSUME TaxonomyInv, TaxonomyTurnInv,
                    [Category!Next /\ Category!InTurn]_Category!vars
             PROVE  TaxonomyTurnInv'
  OBVIOUS
<1> USE DEF TaxonomyInv, Category!TypeOK, Category!TaxonomyAssumption,
            TaxonomyTurnInv, TaxonomySeen, Category!NamesDiffer,
            Category!ParentIsLive, Category!rows, Category!None,
            Category!Statuses
<1>1. ASSUME NEW c \in Calls, NEW n \in CatNames, Category!CheckCategory(c, n),
             Category!InTurn
      PROVE  TaxonomyTurnInv'
  <2>1. \A d \in Calls : categoryCall[d] = Category!Idle
    BY <1>1 DEF Category!CheckCategory, Category!Begin, Category!InTurn
  <2>2. categoryCall' = [d \in Calls |-> IF d = c
                    THEN [step |-> "category", name |-> n] ELSE Category!Idle]
    BY <1>1, <2>1 DEF Category!CheckCategory, Category!Begin
  <2> QED BY <1>1, <2>2
             DEF Category!CheckCategory, Category!Begin, Category!Taken,
                 Category!Idle
<1>2. ASSUME NEW c \in Calls, NEW n \in CatNames,
             Category!InsertCategory(c, n), Category!InTurn
      PROVE  TaxonomyTurnInv'
  <2>1. categoryCall[c] # Category!Idle /\ ~Category!Taken(cat, n)
    BY <1>2 DEF Category!InsertCategory, Category!Idle
  <2>2. categoryCall' = [d \in Calls |-> Category!Idle]
    BY <1>2, <2>1 DEF Category!InsertCategory, Category!Done
  <2> QED BY <1>2, <2>1, <2>2
             DEF Category!InsertCategory, Category!Taken, Category!Idle
<1>3. ASSUME NEW c \in Calls, NEW n \in SubNames, NEW k \in CatNames,
             Category!CheckSub(c, n, k), Category!InTurn
      PROVE  TaxonomyTurnInv'
  <2>1. \A d \in Calls : categoryCall[d] = Category!Idle
    BY <1>3 DEF Category!CheckSub, Category!Begin, Category!InTurn
  <2>2. categoryCall' = [d \in Calls |-> IF d = c
                    THEN [step |-> "sub", name |-> n, of |-> k]
                      ELSE Category!Idle]
    BY <1>3, <2>1 DEF Category!CheckSub, Category!Begin
  <2> QED BY <1>3, <2>2
             DEF Category!CheckSub, Category!Begin, Category!Taken,
                 Category!Idle
<1>4. ASSUME NEW c \in Calls, NEW n \in SubNames, NEW k \in CatNames,
             Category!InsertSub(c, n, k), Category!InTurn
      PROVE  TaxonomyTurnInv'
  <2>1. categoryCall[c] # Category!Idle /\ ~Category!Taken(sub, n)
        /\ cat[k] = "live"
    BY <1>4 DEF Category!InsertSub, Category!Idle
  <2>2. categoryCall' = [d \in Calls |-> Category!Idle]
    BY <1>4, <2>1 DEF Category!InsertSub, Category!Done
  <2> QED BY <1>4, <2>1, <2>2
             DEF Category!InsertSub, Category!Taken, Category!Idle
<1>5. ASSUME NEW c \in Calls, Category!Refused(c), Category!InTurn
      PROVE  TaxonomyTurnInv'
  <2>1. categoryCall' = [d \in Calls |-> Category!Idle]
    BY <1>5 DEF Category!Refused, Category!Done
  <2> QED BY <1>5, <2>1 DEF Category!Refused, Category!Taken, Category!Idle
<1>6. ASSUME NEW k \in CatNames, Category!DeleteCategory(k), Category!InTurn
      PROVE TaxonomyTurnInv'
  <2>1. \A d \in Calls : categoryCall[d] = Category!Idle
    BY <1>6 DEF Category!DeleteCategory, Category!InTurn
  <2> QED BY <1>6, <2>1 DEF Category!DeleteCategory, Category!Idle
<1>7. ASSUME NEW n \in SubNames, Category!DeleteSubCategory(n), Category!InTurn
      PROVE TaxonomyTurnInv'
  <2>1. \A d \in Calls : categoryCall[d] = Category!Idle
    BY <1>7 DEF Category!DeleteSubCategory, Category!InTurn
  <2> QED BY <1>7, <2>1 DEF Category!DeleteSubCategory, Category!Idle
<1>8. CASE UNCHANGED Category!vars
  BY <1>8 DEF Category!vars, Category!Taken
<1> QED BY <1>1, <1>2, <1>3, <1>4, <1>5, <1>6, <1>7, <1>8 DEF Category!Next
=============================================================================
