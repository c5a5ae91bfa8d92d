------------------------------ MODULE Favorites ------------------------------
(***************************************************************************)
(* A user's favorites: references to kits with cached display metadata.    *)
(* addFavoriteHandler reads the kit, then calls addFavorite: one upsert in *)
(* Postgres, a Get and an unconditional Put in DynamoDB.  Users do not     *)
(* interact, so one stands for all.                                        *)
(*                                                                         *)
(* The metadata of a kit (slug, name, summary, publisher) is the number of *)
(* the edition it was copied from.                                         *)
(***************************************************************************)
EXTENDS Deployment

CONSTANTS
  Kits,
  Handlers,     \* requests served at the same time
  MaxEdition    \* bound on the editions of a kit

ASSUME FavoritesAssumption == MaxEdition \in Nat \ {0} /\ Kits # {}

Editions == 1 .. MaxEdition

\* addedAt 0: there is no row.
Favorite == [addedAt : 0 .. MaxTime, edition : 0 .. MaxEdition]
NoFavorite == [addedAt |-> 0, edition |-> 0]

VARIABLES
  favorites,  \* the user's rows of the favorites table
  edition,    \* the current metadata of each kit
  handler     \* the handlers' local state

favoriteVars == <<favorites, edition, handler>>

HandlerState ==
  [pc : {"idle", "add", "put"}, kit : Kits,
   edition : 0 .. MaxEdition,   \* the metadata read from the kit
   item : Favorite]             \* the item DynamoDB will put

Idle == [pc |-> "idle", kit |-> CHOOSE k \in Kits : TRUE, edition |-> 0,
         item |-> NoFavorite]

FavoritesInit ==
  /\ favorites = [k \in Kits |-> NoFavorite]
  /\ edition = [k \in Kits |-> 1]
  /\ handler = [h \in Handlers |-> Idle]

-----------------------------------------------------------------------------
\* addFavoriteHandler resolves the kit.
BeginAdd(h, k) ==
  /\ handler[h].pc = "idle"
  /\ adapter \in Overlapping \/ \A g \in Handlers : handler[g].pc = "idle"
  /\ handler' = [handler EXCEPT ![h] = [Idle EXCEPT !.pc = "add", !.kit = k,
                                                    !.edition = edition[k]]]
  /\ UNCHANGED <<favorites, edition>>

\* Mutant: SET added_at = EXCLUDED.added_at as well.
UpsertedAnew(row, time, ed) == [addedAt |-> time, edition |-> ed]

\* The row an add at this time leaves in place of row.
Upserted(row, time, ed) ==
  [addedAt |-> IF row.addedAt = 0 THEN time ELSE row.addedAt, edition |-> ed]

\* Postgres: INSERT ... ON CONFLICT DO UPDATE.
InsertFavorite(h) ==
  /\ adapter = "postgres"
  /\ handler[h].pc = "add"
  /\ favorites' = [favorites EXCEPT ![handler[h].kit] =
                     Upserted(@, now, handler[h].edition)]
  /\ handler' = [handler EXCEPT ![h] = Idle]
  /\ UNCHANGED edition

\* DynamoDB: the Get, from which the item is built ...
GetFavorite(h) ==
  /\ adapter = "dynamodb"
  /\ handler[h].pc = "add"
  /\ handler' = [handler EXCEPT
                   ![h].pc = "put",
                   ![h].item = Upserted(favorites[handler[h].kit], now,
                                        handler[h].edition)]
  /\ UNCHANGED <<favorites, edition>>

\* ... and the Put, which replaces whatever is there by now.
PutFavorite(h) ==
  /\ handler[h].pc = "put"
  /\ favorites' = [favorites EXCEPT ![handler[h].kit] = handler[h].item]
  /\ handler' = [handler EXCEPT ![h] = Idle]
  /\ UNCHANGED edition

\* removeFavorite: one DELETE, whether the row is there or not.
RemoveFavorite(k) ==
  /\ favorites' = [favorites EXCEPT ![k] = NoFavorite]
  /\ UNCHANGED <<edition, handler>>

\* A publish changes the metadata of the kit.
Refresh(k) ==
  /\ edition[k] < MaxEdition
  /\ edition' = [edition EXCEPT ![k] = @ + 1]
  /\ UNCHANGED <<favorites, handler>>

FavoritesStep ==
  \/ \E h \in Handlers :
       \/ \E k \in Kits : BeginAdd(h, k)
       \/ InsertFavorite(h) \/ GetFavorite(h) \/ PutFavorite(h)
  \/ \E k \in Kits : RemoveFavorite(k) \/ Refresh(k)

-----------------------------------------------------------------------------
FavoritesTypeOK ==
  /\ favorites \in [Kits -> Favorite]
  /\ edition \in [Kits -> Editions]
  /\ handler \in [Handlers -> HandlerState]

\* "addedAt is preserved": as long as a favorite is in the list its addedAt
\* stays, however many adds of the same kit are served at the same time.
AddedAtIsPreserved ==
  [][\A k \in Kits :
       favorites[k].addedAt # 0 /\ favorites'[k].addedAt # 0
         => favorites'[k].addedAt = favorites[k].addedAt]_favorites

=============================================================================
