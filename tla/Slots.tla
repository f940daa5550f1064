-------------------------------- MODULE Slots --------------------------------
(***************************************************************************)
(* The scheduling service's offers: which slots of a calendar a customer   *)
(* is offered, and the bookings that are made from the offers.             *)
(*                                                                         *)
(* Times are whole units.  UTC is the time of the clock and the calendar;  *)
(* working hours are times of a wall clock, which is set forward or back   *)
(* once (zone.shift units, when it shows ClockChange).  How bookings       *)
(* overlap with each other and with the calendar is the matter of          *)
(* Bookings.                                                               *)
(***************************************************************************)
EXTENDS Integers, Sequences, FiniteSets

CONSTANTS
    Day,            \* units of a day
    Hours,          \* the working hours of each day: a sequence of windows <<from, to>>, times of day
    ClockChange,    \* what the wall clock shows when it is changed
    Zones,          \* [offset, shift] of the time zones of businesses
    Duration, Pause, Step,          \* of a slot, between appointments, between candidates
    Notice, MaxDays, MaxSlots,      \* min_notice, max_days_ahead, max_slots
    OfferTtl,
    Earliest, AskedDays,            \* what customers ask for; an Earliest of 0 is none
    Meetings,       \* what others enter into the calendar
    MaxAsks, MaxMinute              \* bounds

ASSUME SlotsAssumption ==
    /\ {Day, Duration, Step, MaxSlots} \subseteq Nat \ {0}
    /\ {Pause, Notice, MaxDays, OfferTtl, MaxMinute} \subseteq Nat
    /\ IsFiniteSet(DOMAIN Hours) /\ DOMAIN Hours \subseteq Int
    /\ \A d \in DOMAIN Hours : Hours[d] \in Seq((0 .. Day) \X (0 .. Day))
    /\ ClockChange \in Int
    /\ \A z \in Zones : z.offset \in Int /\ z.shift \in -Day .. Day
    /\ Earliest \cup AskedDays \subseteq Nat
    /\ Meetings \subseteq Int \X Int

VARIABLES
    minute,
    zone,       \* the business's, which does not change
    diary,      \* the calendar: busy times <<from, to>>, of appointments and of others' meetings
    offers,     \* signed tokens
    asks,       \* how often availability was asked for
    answer,     \* history: the last request, what the diary was, and what was offered
    made        \* history: bookings

slotVars == <<minute, zone, diary, offers, asks, answer, made>>

-----------------------------------------------------------------------------
(* The computation *)

Lower(a, b) == IF a < b THEN a ELSE b
Higher(a, b) == IF a > b THEN a ELSE b

\* astimezone: of a time the wall clock shows, which it may never show (it is then one of before
\* the change), or twice (it is then the first of the two); and what it shows at a time.
Border == ClockChange + Higher(zone.shift, 0)
Utc(l) == l - zone.offset - IF l < Border THEN 0 ELSE zone.shift
Wall(u) == u + zone.offset + IF u + zone.offset < ClockChange THEN 0 ELSE zone.shift

\* _overlaps.
Overlap(a, b) == a[1] < b[2] /\ b[1] < a[2]

Widened(slot) == <<slot[1] - Pause, slot[2] + Pause>>

\* The horizon of a request.
Until(q) == q.at + Day * Lower(q.days, MaxDays)

StartBound(q) == Higher(q.at + Notice, q.earliest)

SlotAt(l) == <<Utc(l), Utc(l + Duration)>>

\* The windows of all days: a day and a place in its list; and when they open and close.
Windows == UNION {{d} \X DOMAIN Hours[d] : d \in DOMAIN Hours}
Opens(w) == Day * w[1] + Hours[w[1]][w[2]][1]
Closes(w) == Day * w[1] + Hours[w[1]][w[2]][2]

\* A place on the way of the loops is a window and a number of steps from its begin.
CursorAt(p) == Opens(p[1]) + Step * p[2]
SlotOf(p) == SlotAt(CursorAt(p))
Precedes(p, r) ==
    \/ p[1][1] < r[1][1]
    \/ p[1][1] = r[1][1] /\ p[1][2] < r[1][2]
    \/ p[1] = r[1] /\ p[2] < r[2]

\* Mutant of FirstDay: the date in UTC.
FirstDayUtc(q) == StartBound(q) \div Day

FirstDay(q) == Wall(StartBound(q)) \div Day

\* candidate_slots: the days from the first on whose begin is before the horizon, their windows,
\* and in these the steps at which an appointment ends in time.  (The begins of days are in order,
\* as no clock is changed by more than a day, so that the days before the horizon come first.)
Candidates(q, busy) ==
    {p \in Windows \X (0 .. Day) :
        /\ p[1][1] >= FirstDay(q) /\ Utc(Day * p[1][1]) < Until(q)
        /\ CursorAt(p) + Duration <= Closes(p[1])
        /\ SlotOf(p)[1] >= StartBound(q) /\ SlotOf(p)[2] <= Until(q)
        /\ \A b \in busy : ~Overlap(Widened(SlotOf(p)), b)}

\* The slots of places, and the order in which they are found: that of the first place of each.
SlotsOf(places) == {SlotOf(p) : p \in places}
Order(places) ==
    {x \in SlotsOf(places) \X SlotsOf(places) :
        \E p \in places : SlotOf(p) = x[1] /\ \A r \in places : SlotOf(r) = x[2] => Precedes(p, r)}

DayOf(slot) == slot[1] \div Day

\* The first n of a set in an order.
Foremost(S, R, n) == {s \in S : Cardinality({t \in S : <<t, s>> \in R}) < n}

\* spread: at most n, first the first of each day.  When there are no more than n these are all.
Spread(slots, R, n) ==
    LET firsts == {s \in slots : \A t \in slots : DayOf(t) = DayOf(s) => <<t, s>> \notin R}
        daily == Foremost(firsts, R, n)
    IN daily \cup Foremost(slots \ daily, R, n - Cardinality(daily))

-----------------------------------------------------------------------------
(* Operations *)

SlotsInit ==
    /\ minute = 0
    /\ zone \in Zones
    /\ diary = {}
    /\ offers = {}
    /\ asks = 0
    /\ answer = [at |-> 0, earliest |-> 0, days |-> 0, diary |-> {}, slots |-> {}, offered |-> {}]
    /\ made = {}

MinutePasses ==
    /\ minute < MaxMinute
    /\ minute' = minute + 1
    /\ UNCHANGED <<zone, diary, offers, asks, answer, made>>

\* provider.busy and _db_busy: what the diary has between two times.
Fetched(from, to) == {b \in diary : Overlap(b, <<from, to>>)}

\* availability.
Availability(earliest, days) ==
    LET q == [at |-> minute, earliest |-> earliest, days |-> days]
        places == Candidates(q, Fetched(minute, Until(q)))
        offered == Spread(SlotsOf(places), Order(places), MaxSlots)
    IN /\ asks < MaxAsks
       /\ asks' = asks + 1
       /\ offers' = offers \cup {[slot |-> s, exp |-> minute + OfferTtl] : s \in offered}
       /\ answer' = [at |-> minute, earliest |-> earliest, days |-> days, diary |-> diary,
                     slots |-> SlotsOf(places), offered |-> offered]
       /\ UNCHANGED <<minute, zone, diary, made>>

\* book: the token is still good, the calendar has nothing in the widened slot, and the slot ends
\* after its start (a CHECK of the table).
BookOffer(o) ==
    /\ o.exp >= minute
    /\ Fetched(o.slot[1] - Pause, o.slot[2] + Pause) = {}
    /\ o.slot[1] < o.slot[2]
    /\ diary' = diary \cup {o.slot}
    /\ made' = made \cup {[slot |-> o.slot, at |-> minute]}
    /\ UNCHANGED <<minute, zone, offers, asks, answer>>

\* Somebody enters a meeting into the external calendar.
Meet(b) ==
    /\ diary' = diary \cup {b}
    /\ UNCHANGED <<minute, zone, offers, asks, answer, made>>

SlotsNext ==
    \/ MinutePasses
    \/ \E earliest \in Earliest, days \in AskedDays : Availability(earliest, days)
    \/ \E o \in offers : BookOffer(o)
    \/ \E b \in Meetings \ diary : Meet(b)

SlotsSpec == SlotsInit /\ [][SlotsNext]_slotVars

-----------------------------------------------------------------------------
(* Properties *)

SlotsTypeOK ==
    /\ minute \in 0 .. MaxMinute /\ zone \in Zones
    /\ \A o \in offers : o.slot \in Int \X Int /\ o.exp \in Nat
    /\ made \subseteq [slot : Int \X Int, at : Nat]

\* Wall-clock times at which a slot of the working hours begins.
Begins == UNION {{l \in Opens(w) .. Closes(w) - Duration : (l - Opens(w)) % Step = 0} : w \in Windows}

\* A slot is on its own day whatever is done to the clock: the wall clock shows that day when the
\* slot begins, and the day begins before the slot ends.
OnItsDay(l) ==
    /\ Wall(Utc(l)) \div Day = l \div Day
    /\ Utc(Day * (l \div Day)) < Utc(l + Duration)

\* "All free slots inside working hours (business TZ), respecting notice, horizon, buffers", and no
\* others; where a slot is free by what the diary then had before the horizon of the request.  One
\* that a change of the clock around midnight moves off its day may be left out.
AllFree ==
    LET busy == {b \in answer.diary : b[1] < Until(answer) /\ b[2] > answer.at}
        Free(s) == /\ s[1] >= answer.at + Notice /\ s[1] >= answer.earliest
                   /\ s[2] <= Until(answer)
                   /\ ~\E b \in busy : b[1] < s[2] + Pause /\ s[1] - Pause < b[2]
    IN /\ \A s \in answer.slots : Free(s) /\ \E l \in Begins : s = SlotAt(l)
       /\ answer.days > 0 =>
            \A l \in Begins : OnItsDay(l) /\ Free(SlotAt(l)) => SlotAt(l) \in answer.slots

\* Offers are spread: none of a second slot of a day before every day with a free one has its own.
SpreadOut ==
    /\ answer.offered \subseteq answer.slots
    /\ Cardinality(answer.offered) = Lower(MaxSlots, Cardinality(answer.slots))
    /\ \A s, t \in answer.offered : s # t /\ DayOf(s) = DayOf(t) =>
         \A f \in answer.slots : \E o \in answer.offered : DayOf(o) = DayOf(f)

\* The candidates, the choice among them, and what is booked from offers: at least the notice,
\* less the life of an offer, ahead; as long as promised, unless the clock is changed meanwhile;
\* and apart from what was in the diary before.
SlotsHold ==
    /\ SlotsTypeOK
    /\ AllFree
    /\ SpreadOut
    /\ \A m \in made :
         /\ m.slot[1] >= m.at + Notice - OfferTtl
         /\ \/ m.slot[2] - m.slot[1] = Duration
            \/ \E l \in Border - Duration .. Border - 1 : m.slot = SlotAt(l)
         /\ \A n \in made : n # m => ~Overlap(Widened(m.slot), n.slot)
=============================================================================
