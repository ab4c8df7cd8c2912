--------------------------- MODULE DerivedListing ---------------------------
(***************************************************************************)
(* deriveListing (src/runtime/listing.ts): the tool set an agent sees is a  *)
(* function of what the document's registry holds and of what this library  *)
(* recorded or was granted, and of nothing else.                            *)
(***************************************************************************)
CONSTANTS
  Names,         \* tool names
  BuiltIns,      \* those the library serves itself
  Descriptions,  \* what the registry says of a name
  Fields,        \* what the ownership record or the built-in table says of it
  None           \* not registered; not ours, unavailable or not granted

(* An entry under the name of a built-in is never read.                     *)
Registries == [Names \ BuiltIns -> Descriptions \cup {None}]
Records    == [Names -> Fields \cup {None}]

(* A name is listed when the library answers for it and, unless it is a     *)
(* built-in, the registry holds it.                                         *)
Derived(registry, record) ==
  [n \in Names |->
     IF record[n] = None \/ (n \notin BuiltIns /\ registry[n] = None)
     THEN None
     ELSE <<IF n \in BuiltIns THEN None ELSE registry[n], record[n]>>]

Listings == [Names -> ((Descriptions \cup {None}) \X Fields) \cup {None}]

ASSUME ListingAssumption ==
  /\ BuiltIns \subseteq Names
  /\ None \notin Descriptions \cup Fields \cup Listings
=============================================================================
