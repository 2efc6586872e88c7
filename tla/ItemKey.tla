------------------------------- MODULE ItemKey -------------------------------
(***************************************************************************)
(* itemkey.Build: the deterministic key of a collected item.  A key is a   *)
(* tagged tuple, as the code's string is a tag followed by the raw fields: *)
(* the four tags differ, a timestamp in RFC 3339 form contains no          *)
(* ":title:", and the hashed fields are prefixed by their lengths.  The    *)
(* digest is taken to be free of collisions.                               *)
(***************************************************************************)
CONSTANTS
  Text,         \* field values, as the source sent them
  Blank,        \* the texts of white space only, the empty one included
  Instant,      \* points in time
  ZeroInstant,  \* the zero time.Time
  Zone,         \* time zones a timestamp may carry
  NoTime,       \* a nil PublishedAt
  NoKey         \* ErrNoDeterministicIdentity

ASSUME ItemKeyAssumption ==
  /\ Blank \subseteq Text
  /\ ZeroInstant \in Instant
  /\ NoTime \notin [instant : Instant, zone : Zone]
  /\ \A i \in Instant, s, t \in Text :
       NoKey \notin {<<"external", s>>, <<"url", s>>,
                     <<"published", i, s>>, <<"content", s, t>>}

Timestamp == [instant : Instant, zone : Zone] \cup {NoTime}

MonitorItem == [ExternalID : Text, URL : Text, Title : Text, Content : Text,
                PublishedAt : Timestamp]

usable(text) == text \notin Blank

(* A timestamp that is there and is not the zero time, in whatever zone.   *)
Dated(item) == /\ item.PublishedAt # NoTime
               /\ item.PublishedAt.instant # ZeroInstant

(* Variant: the timestamp keeps the zone it came with. *)
LocalTime(t) == t

UTC(t) == t.instant

(* Variant: title and content are both asked for. *)
HashableInFull(item) == usable(item.Title) /\ usable(item.Content)

Hashable(item) == usable(item.Title) \/ usable(item.Content)

(* The first usable identity in the order of the code; the timestamp is    *)
(* taken to UTC.                                                           *)
Build(item) ==
  CASE usable(item.ExternalID) -> <<"external", item.ExternalID>>
    [] ~usable(item.ExternalID) /\ usable(item.URL) -> <<"url", item.URL>>
    [] /\ ~usable(item.ExternalID) /\ ~usable(item.URL)
       /\ Dated(item) /\ usable(item.Title) ->
         <<"published", UTC(item.PublishedAt), item.Title>>
    [] /\ ~usable(item.ExternalID) /\ ~usable(item.URL)
       /\ ~(Dated(item) /\ usable(item.Title))
       /\ Hashable(item) ->
         <<"content", item.Title, item.Content>>
    [] OTHER -> NoKey
=============================================================================
