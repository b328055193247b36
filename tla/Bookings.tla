------------------------------- MODULE Bookings -------------------------------
(***************************************************************************)
(* Facilitator sessions: at most two a day, each in a band of its own, for *)
(* learners of the upper tiers.  The rows of the day are read, checked and *)
(* joined by one more; then the calendars are told, which may fail after   *)
(* the booking is in the table.  Tiers come and go with the access grants. *)
(***************************************************************************)
EXTENDS Naturals, FiniteSets

CONSTANTS Trainees, Bookables,   \* rows of meeting_bookings there is room for
          Days, Sundays, Bands,
          Bookers                \* requests in flight

ASSUME BookablesAreFinite == IsFiniteSet(Bookables)

VARIABLES tier,      \* "none", "essential" or "upper", per trainee
          meetings,  \* [who, day, band, status]
          booker,    \* [pc, who, day, band] per request
          rushed     \* days on which two requests had read before either wrote

bookVars == <<tier, meetings, booker, rushed>>

MaxBookingsPerDay == 2
AtEase == [pc |-> "idle", who |-> "none", day |-> "none", band |-> "none"]
NoMeeting == [who |-> "none", day |-> "none", band |-> "none", status |-> "none"]

BookTypeOK ==
  /\ tier \in [Trainees -> {"none", "essential", "upper"}]
  /\ \A b \in Bookables : meetings[b] = NoMeeting \/ meetings[b] \in
       [who : Trainees, day : Days, band : Bands, status : {"CONFIRMED", "CANCELLED"}]
  /\ \A d \in Bookers : booker[d].pc \in {"idle", "book", "sync", "cancel"}
  /\ rushed \subseteq Days

BookInit ==
  /\ tier = [l \in Trainees |-> "none"]
  /\ meetings = [b \in Bookables |-> NoMeeting]
  /\ booker = [d \in Bookers |-> AtEase]
  /\ rushed = {}

(* The confirmed sessions of a day. *)
BookedOn(day) == {b \in Bookables : meetings[b].day = day /\ meetings[b].status = "CONFIRMED"}
BandsOn(day) == {meetings[b].band : b \in BookedOn(day)}

(* The strip a trainee is shown: no Sundays, nothing on a full day. *)
Offered(day) == IF day \in Sundays \/ Cardinality(BookedOn(day)) >= MaxBookingsPerDay
                THEN {} ELSE Bands \ BandsOn(day)

EligibleAnyBand(l, day) ==  \* Mutant: the bands already booked are not compared
  {band \in Bands : tier[l] = "upper" /\ day \notin Sundays
                    /\ Cardinality(BookedOn(day)) < MaxBookingsPerDay}
EligibleAnyDay(l, day) ==   \* Mutant: the capacity of the day is not checked
  {band \in Bands \ BandsOn(day) : tier[l] = "upper" /\ day \notin Sundays}
Eligible(l, day) ==
  {band \in Bands : /\ tier[l] = "upper" /\ day \notin Sundays
                    /\ band \notin BandsOn(day)
                    /\ Cardinality(BookedOn(day)) < MaxBookingsPerDay}

TierChanges(l, t) ==
  /\ tier' = [tier EXCEPT ![l] = t]
  /\ UNCHANGED <<meetings, booker, rushed>>

StartBooking(d, l, day, band) ==
  /\ booker[d].pc = "idle" /\ band \in Eligible(l, day)
  /\ booker' = [booker EXCEPT ![d] = [pc |-> "book", who |-> l, day |-> day, band |-> band]]
  /\ rushed' = IF \E x \in Bookers : booker[x].pc = "book" /\ booker[x].day = day
               THEN rushed \cup {day} ELSE rushed
  /\ UNCHANGED <<tier, meetings>>

CommitBooking(d, b) ==
  /\ booker[d].pc = "book" /\ meetings[b].status = "none"
  /\ meetings' = [meetings EXCEPT ![b] =
                    [who |-> booker[d].who, day |-> booker[d].day, band |-> booker[d].band,
                     status |-> "CONFIRMED"]]
  /\ booker' = [booker EXCEPT ![d].pc = "sync"]
  /\ UNCHANGED <<tier, rushed>>

(* The calendars are told or not; an unreachable one raises, and the       *)
(* booking stays.  Restarts end a request at any point.                    *)
BookerEnds(d) ==
  /\ booker[d].pc # "idle"
  /\ booker' = [booker EXCEPT ![d] = AtEase]
  /\ UNCHANGED <<tier, meetings, rushed>>

(* A trainee cancels a booking of his own, access or not. *)
CancelBooking(b, l) ==
  /\ meetings[b].who = l
  /\ meetings' = [meetings EXCEPT ![b].status = "CANCELLED"]
  /\ UNCHANGED <<tier, booker, rushed>>

BookNext ==
  \/ \E l \in Trainees : \E t \in {"none", "essential", "upper"} : TierChanges(l, t)
  \/ \E l \in Trainees, b \in Bookables : CancelBooking(b, l)
  \/ \E d \in Bookers, l \in Trainees, day \in Days, band \in Bands : StartBooking(d, l, day, band)
  \/ \E d \in Bookers, b \in Bookables : CommitBooking(d, b)
  \/ \E d \in Bookers : BookerEnds(d)

BookSpec == BookInit /\ [][BookNext]_bookVars

-----------------------------------------------------------------------------
(* One facilitator is never in two places: unless two requests had read a  *)
(* day before either wrote, the day holds two sessions at most, no band    *)
(* twice, none on a Sunday, and what the strip still offers is free.       *)
FacilitatorKept ==
  \A day \in Days \ rushed :
    /\ Cardinality(BookedOn(day)) <= MaxBookingsPerDay
    /\ Cardinality(BandsOn(day)) = Cardinality(BookedOn(day))
    /\ day \in Sundays => BookedOn(day) = {}
    /\ Offered(day) # {} => Cardinality(BookedOn(day)) < MaxBookingsPerDay
=============================================================================
