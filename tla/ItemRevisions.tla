---------------------------- MODULE ItemRevisions ----------------------------
(***************************************************************************)
(* What the key means for monitoring.  A publisher revises one item field  *)
(* by field; the item is collected from time to time, and the revision of  *)
(* an earlier collection decides by its key whether the present one counts *)
(* as new.  The reference definition of identity is SameIdentity.          *)
(***************************************************************************)
EXTENDS ItemKey

VARIABLES item,      \* the revision the source serves now
          collected  \* the revision of an earlier collection

revisions == <<item, collected>>

RevisionTypeOK == item \in MonitorItem /\ collected \in MonitorItem

RevisionInit == item \in MonitorItem /\ collected = item

Revise ==
  \/ \E t \in Text : \E f \in {"ExternalID", "URL", "Title", "Content"} :
       item' = [item EXCEPT ![f] = t]
  \/ \E d \in Timestamp : item' = [item EXCEPT !.PublishedAt = d]

RevisionNext == \/ Revise /\ UNCHANGED collected
                \/ collected' = item /\ UNCHANGED item

RevisionSpec == RevisionInit /\ [][RevisionNext]_revisions
-----------------------------------------------------------------------------
(* Two revisions are one item when they agree on the strongest identity    *)
(* either of them offers.                                                  *)
Identified(i) == \E f \in {"ExternalID", "URL", "Title", "Content"} : usable(i[f])

SameInstant(i, j) == i.PublishedAt.instant = j.PublishedAt.instant

SameIdentity(i, j) ==
  LET either(f) == usable(i[f]) \/ usable(j[f])
      dated(x)  == Dated(x) /\ usable(x.Title)
  IN  IF either("ExternalID") THEN i.ExternalID = j.ExternalID
      ELSE IF either("URL") THEN i.URL = j.URL
      ELSE i.Title = j.Title /\
           IF dated(i) \/ dated(j)
           THEN Dated(i) /\ Dated(j) /\ SameInstant(i, j)
           ELSE i.Content = j.Content

(* Exactly the revisions without any usable text have no key               *)
(* (builder.go:35-37).                                                     *)
KeyExistsIffIdentified == (Build(item) # NoKey) <=> Identified(item)

(* A revision keeps its key exactly when it keeps its identity: edits of   *)
(* weaker fields and another time zone never make an old item new, and two *)
(* identities never share a key (builder.go:22-42).                        *)
KeyIsIdentity ==
  Identified(item) /\ Identified(collected) =>
    (Build(item) = Build(collected) <=> SameIdentity(item, collected))
=============================================================================
