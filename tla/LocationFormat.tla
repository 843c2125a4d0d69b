--------------------------- MODULE LocationFormat ---------------------------
(***************************************************************************)
(* The location envelope a circle member signs, encrypts and posts, and    *)
(* what another member's client accepts (services/e2eeService.ts), with    *)
(* the session's grid of approximate cells.  LocationShare models when     *)
(* envelopes are sent and taken; here it is what they hold.                *)
(*                                                                         *)
(* Coordinates and times are integers in units the constants fix.  The     *)
(* grid offsets are fractions of a cell: whole units below the step.       *)
(***************************************************************************)
EXTENDS Integers, FiniteSets

CONSTANTS
  Fix,            \* positions the device reports: [lat, lng, accuracy_m]
  Circles,        \* circle ids
  Epochs,         \* key epochs
  CellSizes,      \* cells the session may draw, even numbers of units
  Stretch,        \* 1 / cos of a latitude, as a whole number
  LatMax, LngMax, \* 90 and 180 degrees
  MaxAccuracy,    \* 100_000 m
  MaxAge,         \* LOCATION_MAX_AGE_SECONDS
  Skew,           \* LOCATION_FUTURE_SKEW_SECONDS
  Drifts,         \* how far a reader's clock may be ahead of the sender's
  MaxClock,       \* bound: the sender's clock
  MaxEnvelopes,   \* bound: envelopes published
  NoGrid

VARIABLES
  grid,           \* approximateSessionGrid
  envelopes,      \* envelopes posted, each with the fix behind it
  clock,          \* the sender's clock
  drift,          \* the reader's clock minus the sender's
  located         \* the content the reader accepted last, or NoGrid

formatVars == <<grid, envelopes, clock, drift, located>>

Precision == {"exact", "approximate"}

\* The longitude step is fixed by the latitude of the first fix.
NewGrid(cell, lat) == {[cell |-> cell, latStep |-> cell, lngStep |-> cell * Stretch[lat],
                        latOffset |-> o, lngOffset |-> q] :
                         o \in 0..(cell - 1), q \in 0..(cell * Stretch[lat] - 1)}

DrawsAgain(lat, g) == \E cell \in CellSizes : g \in NewGrid(cell, lat)  \* mutant

sessionGrid(lat, g) ==
  IF grid # NoGrid THEN g = grid ELSE \E cell \in CellSizes : g \in NewGrid(cell, lat)

Grids == UNION {NewGrid(cell, f.lat) : cell \in CellSizes, f \in Fix}

ASSUME FormatAssumption ==
  /\ Fix \subseteq [lat : Int, lng : Int, accuracy_m : Nat]
  /\ CellSizes \subseteq Nat \ {0} /\ \A f \in Fix : Stretch[f.lat] \in Nat \ {0}
  /\ MaxAge \in Nat \ {0} /\ Skew \in Nat /\ Drifts \subseteq Int
  /\ NoGrid \notin Grids

Centre(x, step, offset) == ((x - offset) \div step) * step + offset + step \div 2

approximateLocationForSession(f, g) ==
  [lat |-> Centre(f.lat, g.latStep, g.latOffset),
   lng |-> Centre(f.lng, g.lngStep, g.lngOffset), cell_m |-> g.cell]

validCoordinateContent(c) ==
  /\ c.lat \in -LatMax..LatMax /\ c.lng \in -LngMax..LngMax
  /\ c.accuracy_m \in 0..MaxAccuracy /\ c.precision \in Precision

Content(f, g, precision, at) ==
  IF precision = "exact"
  THEN [lat |-> f.lat, lng |-> f.lng, accuracy_m |-> f.accuracy_m,
        captured_at |-> at, precision |-> precision]
  ELSE LET t == approximateLocationForSession(f, g)
       IN  [lat |-> t.lat, lng |-> t.lng,
            accuracy_m |-> IF f.accuracy_m > t.cell_m THEN f.accuracy_m ELSE t.cell_m,
            captured_at |-> at, precision |-> precision]

locationAad(circle, epoch) == <<circle, epoch>>

\* The signed event, encrypted under the circle's key of the epoch.
encryptCircleLocationV1(circle, epoch, content, expires) ==
  [key |-> <<circle, epoch>>, aad |-> locationAad(circle, epoch),
   created_at |-> content.captured_at, circle |-> circle, epoch |-> epoch,
   expires |-> expires, content |-> content]

\* A payload out of range throws, and nothing is posted.
publish(f, circle, epoch, precision) ==
  /\ Cardinality(envelopes) < MaxEnvelopes
  /\ \E g \in IF precision = "exact" THEN {grid} ELSE Grids :
       /\ precision = "approximate" => sessionGrid(f.lat, g)
       /\ grid' = g
       /\ LET content == Content(f, g, precision, clock)
              expires == clock + MaxAge
          IN  envelopes' = IF /\ validCoordinateContent(content)
                              /\ expires > clock /\ expires <= clock + MaxAge
                           THEN envelopes \cup
                                  {[fix |-> f, precision |-> precision, grid |-> g, cipher |->
                                    encryptCircleLocationV1(circle, epoch, content, expires)]}
                           ELSE envelopes
  /\ UNCHANGED <<clock, drift, located>>

exactLocationTags(e, circle, epoch) == e.circle = circle /\ e.epoch = epoch

NoSkew(e, circle, epoch, active, at) ==  \* mutant: no clock skew is allowed for
  /\ e.key = <<circle, epoch>> /\ e.aad = locationAad(circle, epoch)
  /\ e.created_at <= at /\ active
  /\ exactLocationTags(e, circle, epoch)
  /\ e.expires > at /\ e.expires <= e.created_at + MaxAge
  /\ validCoordinateContent(e.content) /\ e.content.captured_at = e.created_at
  /\ e.content.captured_at >= at - MaxAge

decryptCircleLocationV1(e, circle, epoch, active, at) ==
  /\ e.key = <<circle, epoch>> /\ e.aad = locationAad(circle, epoch)
  /\ e.created_at <= at + Skew /\ active
  /\ exactLocationTags(e, circle, epoch)
  /\ e.expires > at /\ e.expires <= e.created_at + MaxAge
  /\ validCoordinateContent(e.content) /\ e.content.captured_at = e.created_at
  /\ e.content.captured_at <= at + Skew /\ e.content.captured_at >= at - MaxAge

\* The reader tries the circle it watches and the epoch the body claims.
receive(m, circle, epoch, active) ==
  /\ decryptCircleLocationV1(m.cipher, circle, epoch, active, clock + drift)
  /\ located' = m.cipher.content
  /\ UNCHANGED <<grid, envelopes, clock, drift>>

tick == clock < MaxClock /\ clock' = clock + 1
        /\ UNCHANGED <<grid, envelopes, drift, located>>

FormatInit ==
  /\ grid = NoGrid /\ envelopes = {} /\ clock = 0 /\ drift \in Drifts /\ located = NoGrid

FormatNext ==
  \/ \E f \in Fix, i \in Circles, n \in Epochs, p \in Precision : publish(f, i, n, p)
  \/ \E m \in envelopes, i \in Circles, n \in Epochs, active \in BOOLEAN :
       receive(m, i, n, active)
  \/ tick

FormatSpec == FormatInit /\ [][FormatNext]_formatVars

-----------------------------------------------------------------------------
Abs(x) == IF x < 0 THEN -x ELSE x
Approximate == {m \in envelopes : m.precision = "approximate"}
SameCell(f, h, g) == /\ (f.lat - g.latOffset) \div g.latStep = (h.lat - g.latOffset) \div g.latStep
                     /\ (f.lng - g.lngOffset) \div g.lngStep = (h.lng - g.lngOffset) \div g.lngStep

(* In one session an approximate fix tells its cell and nothing else: it   *)
(* is published as the cell's centre, within half a step of the truth, and *)
(* all fixes of a cell are published as the same point however often the   *)
(* device reports (e2eeService.ts:433, "Stable, session-scoped").          *)
ApproximateTellsACell ==
  \A m \in Approximate :
    /\ 2 * Abs(m.cipher.content.lat - m.fix.lat) <= m.grid.latStep
    /\ 2 * Abs(m.cipher.content.lng - m.fix.lng) <= m.grid.lngStep
    /\ \A n \in Approximate :
         SameCell(m.fix, n.fix, m.grid) =>
           m.cipher.content.lat = n.cipher.content.lat
           /\ m.cipher.content.lng = n.cipher.content.lng

(* Between two clocks at most the allowed skew apart, every envelope that  *)
(* has not expired for its reader can be read from the moment it is        *)
(* posted, by a reader of its circle and epoch, and by no other: the age,  *)
(* skew and expiry bounds of the two sides leave no gap.                   *)
FreshIsReadable ==
  drift \in -Skew..Skew =>
    \A m \in envelopes, i \in Circles, n \in Epochs :
      decryptCircleLocationV1(m.cipher, i, n, TRUE, clock + drift) <=>
        /\ i = m.cipher.circle /\ n = m.cipher.epoch
        /\ clock + drift < m.cipher.expires
=============================================================================
