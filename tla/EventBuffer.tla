---------------------------- MODULE EventBuffer -----------------------------
(***************************************************************************)
(* next_events_raw and the event buffer of the Inotifytools handle         *)
(* (inotify.rs), against a kernel that queues events at any moment.        *)
(*                                                                         *)
(* Lengths are counted in units of EVENT_SIZE.  A call runs through the    *)
(* control points                                                          *)
(*   top      the head of the loop                                         *)
(*   poll     in ppoll                                                     *)
(*   ioctl    in the loop that waits for num_events * EVENT_SIZE bytes     *)
(*   read     before read                                                  *)
(*   advance  the label more_events                                        *)
(*   out      no call is running                                           *)
(* and the kernel may queue an event between any two of them.              *)
(***************************************************************************)
EXTENDS Integers, Sequences

CONSTANTS
  Fanotify,      \* the mode the handle is initialised in
  Cap,           \* MAX_EVENTS: size of the part of the buffer read() fills
  MaxSize,       \* the longest event
  QueueLimit,    \* the kernel's max_queued_events
  Wants,         \* values of num_events the callers use
  Errnos,        \* errno values of the system calls
  NoEvent,       \* content of a cell where no event begins
  MaxEvents,     \* bound on the number of events of a behaviour
  MaxInits       \* bound on the number of times the handle is initialised

ASSUME FanotifyAssumption == Fanotify \in BOOLEAN
ASSUME SizeAssumption == MaxSize \in Nat \ {0} /\ Cap \in Nat /\ MaxSize <= Cap
ASSUME BoundsAssumption == QueueLimit \in Nat /\ MaxEvents \in Nat
ASSUME WantsAssumption == Wants \subseteq Nat
ASSUME EventErrnosAssumption == Errnos \subseteq Nat \ {0}

\* n numbers the events, skip says that the filter or the own-pid test of
\* the loop drops the event, and overflow marks the kernel's report that
\* its queue was full: with fanotify, the event that carries no fid.
Events == [n : 1..MaxEvents, size : 1..MaxSize, skip : BOOLEAN, overflow : BOOLEAN]

ASSUME NoEventAssumption == NoEvent \notin Events

VARIABLES
  open,          \* the handle is initialised
  inits,         \* how often that succeeded
  opened_at,     \* history: sent when it was initialised last
  kq,            \* kernel: the queue of the descriptor
  sent,          \* how many events happened
  evbuf,         \* offset -> event that begins there
  first_byte,    \* offset of the next event in evbuf, 0 for none
  bytes,         \* length of the valid part of evbuf
  this_bytes,    \* what the last read added
  pc, timed, want,   \* the running call: control point and arguments
  error,
  ret,           \* what the last call returned: "none", "null" or "event"
  delivered      \* history: the events returned so far

bufvars == <<evbuf, first_byte, bytes, this_bytes>>
callvars == <<timed, want>>
kernelvars == <<kq, sent>>
handlevars == <<open, inits, opened_at>>
vars == <<open, inits, opened_at, kq, sent, evbuf, first_byte, bytes, this_bytes,
          pc, timed, want, error, ret, delivered>>

Init ==
  /\ open = FALSE /\ inits = 0 /\ opened_at = 0
  /\ kq = << >> /\ sent = 0
  /\ evbuf = [o \in 0..(Cap - 1) |-> NoEvent]
  /\ first_byte = 0 /\ bytes = 0 /\ this_bytes = 0
  /\ pc = "out" /\ timed = FALSE /\ want = 1
  /\ error = 0 /\ ret = "none"
  /\ delivered = << >>

(***************************************************************************)
(* Lengths of sequences of events.                                         *)
(***************************************************************************)
TotalSize(s) ==
  LET sum[k \in 0..Len(s)] == IF k = 0 THEN 0 ELSE sum[k - 1] + s[k].size
  IN  sum[Len(s)]

\* Where the k-th event of s begins when s is laid out from offset off.
Offset(s, off, k) == off + TotalSize(SubSeq(s, 1, k - 1))

(***************************************************************************)
(* The kernel (external).                                                  *)
(***************************************************************************)

\* Something happens to a watched file.  A full queue takes one report of
\* the overflow and loses the event itself.
Occur ==
  /\ open /\ sent < MaxEvents
  /\ sent' = sent + 1
  /\ \/ /\ Len(kq) < QueueLimit
        /\ \E size \in 1..MaxSize, skip \in BOOLEAN :
             kq' = Append(kq, [n |-> sent + 1, size |-> size, skip |-> skip,
                               overflow |-> FALSE])
     \/ /\ Len(kq) >= QueueLimit
        /\ kq' = IF \E k \in 1..Len(kq) : kq[k].overflow
                   THEN kq
                   ELSE Append(kq, [n |-> sent + 1, size |-> 1, skip |-> FALSE,
                                    overflow |-> TRUE])
  /\ UNCHANGED <<handlevars, bufvars, pc, callvars, error, ret, delivered>>

\* How many events one read() of at most room units returns: as many whole
\* events as fit.
Fitting(room) ==
  CHOOSE k \in 0..Len(kq) :
    /\ TotalSize(SubSeq(kq, 1, k)) <= room
    /\ k < Len(kq) => TotalSize(SubSeq(kq, 1, k + 1)) > room

\* Faulty: the events land one unit too far.
BugWrittenLate(s, off) ==
  [o \in DOMAIN evbuf |->
     IF \E k \in 1..Len(s) : Offset(s, off, k) = o - 1
       THEN s[CHOOSE k \in 1..Len(s) : Offset(s, off, k) = o - 1]
       ELSE NoEvent]

\* evbuf after a read of the events s at offset off
Written(s, off) ==
  [o \in DOMAIN evbuf |->
     IF \E k \in 1..Len(s) : Offset(s, off, k) = o
       THEN s[CHOOSE k \in 1..Len(s) : Offset(s, off, k) = o]
       ELSE IF o \in off..(off + TotalSize(s) - 1) THEN NoEvent ELSE evbuf[o]]

(***************************************************************************)
(* init and cleanup.  Neither touches the buffer or its cursors.           *)
(***************************************************************************)
init ==
  /\ pc = "out" /\ ~open /\ inits < MaxInits
  /\ \/ /\ open' = TRUE /\ error' = 0
        /\ inits' = inits + 1 /\ opened_at' = sent
     \/ /\ error' \in Errnos
        /\ UNCHANGED handlevars
  /\ ret' = "none"
  /\ UNCHANGED <<kernelvars, bufvars, pc, callvars, delivered>>

\* Closing the descriptor frees the kernel's queue.
cleanup ==
  /\ pc = "out" /\ open /\ inits < MaxInits
  /\ open' = FALSE
  /\ kq' = << >>
  /\ error' = 0
  /\ ret' = "none"
  /\ UNCHANGED <<inits, opened_at, sent, bufvars, pc, callvars, delivered>>

(***************************************************************************)
(* next_events_raw.                                                        *)
(***************************************************************************)
Return(result) == pc' = "out" /\ ret' = result

next_events(t, w) ==
  /\ pc = "out" /\ open
  /\ timed' = t /\ want' = w
  /\ IF w < 1 THEN Return("null") ELSE pc' = "top" /\ UNCHANGED ret
  /\ UNCHANGED <<handlevars, kernelvars, bufvars, error, delivered>>

\* The event at first_byte is in the buffer, at least its first unit.
HasEvent == first_byte # 0 /\ first_byte <= bytes - 1

\* ... but not all of it.
Incomplete ==
  /\ ~Fanotify
  /\ evbuf[first_byte] # NoEvent
  /\ first_byte + evbuf[first_byte].size > bytes

\* Faulty: bytes keeps its value when the buffer has been used up.
BugTopKeepsBytes ==
  /\ pc = "top"
  /\ error' = 0
  /\ this_bytes' = IF HasEvent THEN 0 ELSE this_bytes
  /\ pc' = IF HasEvent THEN "advance" ELSE "poll"
  /\ UNCHANGED <<evbuf, first_byte, bytes, handlevars, kernelvars, callvars, ret, delivered>>

\* The head of the loop: take the next event from the buffer if there is
\* one, else go and read.  An incomplete event is moved to the front first.
Top ==
  /\ pc = "top"
  /\ error' = 0
  /\ IF HasEvent
       THEN IF Incomplete
              THEN /\ evbuf' = [o \in DOMAIN evbuf |->
                                  IF o < bytes - first_byte THEN evbuf[first_byte + o]
                                                            ELSE evbuf[o]]
                   /\ bytes' = bytes - first_byte
                   /\ first_byte' = 0
                   /\ pc' = "poll"
                   /\ UNCHANGED this_bytes
              ELSE /\ this_bytes' = 0
                   /\ pc' = "advance"
                   /\ UNCHANGED <<evbuf, first_byte, bytes>>
       ELSE /\ bytes' = IF first_byte = 0 THEN 0 ELSE bytes
            /\ pc' = "poll"
            /\ UNCHANGED <<evbuf, first_byte, this_bytes>>
  /\ UNCHANGED <<handlevars, kernelvars, callvars, ret, delivered>>

\* ppoll finds an event.
PollReady ==
  /\ pc = "poll" /\ kq # << >>
  /\ pc' = "ioctl"
  /\ UNCHANGED <<handlevars, kernelvars, bufvars, callvars, error, ret, delivered>>

\* Faulty: the timeout is armed although the caller wants to block.
BugPollAlwaysTimed ==
  /\ pc = "poll" /\ kq = << >>
  /\ Return("null")
  /\ UNCHANGED <<handlevars, kernelvars, bufvars, callvars, error, delivered>>

\* ppoll times out.
PollTimeout ==
  /\ pc = "poll" /\ timed /\ kq = << >>
  /\ Return("null")
  /\ UNCHANGED <<handlevars, kernelvars, bufvars, callvars, error, delivered>>

\* A signal interrupts ppoll, or one of the three system calls fails.
SysCallFails ==
  /\ pc \in {"poll", "ioctl", "read"}
  /\ error' \in Errnos
  /\ Return("null")
  /\ UNCHANGED <<handlevars, kernelvars, bufvars, callvars, delivered>>

\* Faulty: the wait asks for one event more than wanted.
BugIoctlOneMore ==
  /\ pc = "ioctl" /\ TotalSize(kq) > want
  /\ pc' = "read"
  /\ UNCHANGED <<handlevars, kernelvars, bufvars, callvars, error, ret, delivered>>

\* FIONREAD reports enough bytes.  Until it does the loop spins, without
\* regard to the timeout.
Ioctl ==
  /\ pc = "ioctl" /\ TotalSize(kq) >= want
  /\ pc' = "read"
  /\ UNCHANGED <<handlevars, kernelvars, bufvars, callvars, error, ret, delivered>>

Min2(x, y) == IF x < y THEN x ELSE y
Max2(x, y) == IF x > y THEN x ELSE y

\* read() behind the valid part of the buffer: whole events, as many as
\* fit.  Without room for one the kernel refuses, without room it reads
\* nothing, and the call fails.
Read ==
  LET off == Min2(Max2(bytes, 0), Cap)
      k   == Fitting(Cap - off)
      got == SubSeq(kq, 1, k)
  IN  /\ pc = "read" /\ kq # << >>
      /\ IF k > 0
           THEN /\ evbuf' = Written(got, off)
                /\ this_bytes' = TotalSize(got)
                /\ kq' = SubSeq(kq, k + 1, Len(kq))
                /\ pc' = "advance"
                /\ UNCHANGED <<error, ret>>
           ELSE /\ error' \in (IF off = Cap THEN {error} ELSE Errnos)
                /\ Return("null")
                /\ UNCHANGED <<evbuf, this_bytes, kq>>
      /\ UNCHANGED <<handlevars, sent, first_byte, bytes, callvars, delivered>>

\* What the code takes for the event at offset o.  Where no event begins
\* it decodes other bytes: any length, and with fanotify any verdict on
\* the presence of a fid.
Decoded(o) ==
  IF o \in DOMAIN evbuf /\ evbuf[o] # NoEvent
    THEN {evbuf[o]}
    ELSE [n : {0}, size : 0..MaxSize, skip : BOOLEAN, overflow : BOOLEAN]

\* Faulty: a used-up buffer is not started afresh.
BugFirstByteKept(fb, e, end) == fb + e.size

\* first_byte after the event e: 0 when e was the last one in the buffer
NextFirstByte(fb, e, end) == IF fb + e.size = end THEN 0 ELSE fb + e.size

\* The two reasons for which the loop goes round again: the event comes
\* from the own process (fanotify), or the regular expression excludes it.
Skipped(e) == e.skip

\* more_events: step over the event and return it, unless it is to be
\* skipped.  The conversion of a fanotify event that has no fid fails after
\* it advanced first_byte and before bytes is brought up to date.
Advance ==
  /\ pc = "advance"
  /\ \E e \in Decoded(first_byte) :
       IF Fanotify /\ e.overflow
         THEN /\ first_byte' = first_byte + e.size
              /\ Return("null")
              /\ UNCHANGED <<bytes, delivered>>
         ELSE /\ bytes' = bytes + this_bytes
              /\ first_byte' = NextFirstByte(first_byte, e, bytes')
              /\ IF Skipped(e)
                   THEN pc' = "top" /\ UNCHANGED <<ret, delivered>>
                   ELSE Return("event") /\ delivered' = Append(delivered, e)
  /\ UNCHANGED <<handlevars, kernelvars, evbuf, this_bytes, callvars, error>>

LibraryStep == Top \/ PollReady \/ PollTimeout \/ Ioctl \/ Read \/ Advance

Next ==
  \/ Occur
  \/ init
  \/ cleanup
  \/ \E t \in BOOLEAN, w \in Wants : next_events(t, w)
  \/ Top
  \/ PollReady
  \/ PollTimeout
  \/ SysCallFails
  \/ Ioctl
  \/ Read
  \/ Advance

Spec == Init /\ [][Next]_vars

\* The caller's thread runs: a call that can go on does, and the kernel's
\* timer for ppoll expires.
FairSpec == Spec /\ WF_vars(LibraryStep)

(***************************************************************************)
(* Properties.                                                             *)
(***************************************************************************)

\* Every variable has the shape of the field or the kernel state it models.
TypeOK ==
  /\ open \in BOOLEAN /\ inits \in Nat /\ opened_at \in Nat
  /\ kq \in Seq(Events) /\ sent \in Nat
  /\ evbuf \in [0..(Cap - 1) -> Events \cup {NoEvent}]
  /\ first_byte \in Nat /\ bytes \in Nat /\ this_bytes \in Nat
  /\ pc \in {"out", "top", "poll", "ioctl", "read", "advance"}
  /\ timed \in BOOLEAN /\ want \in Nat
  /\ error \in Nat /\ ret \in {"none", "null", "event"}
  /\ delivered \in Seq(Events)

\* Where the bytes end that the library has read and not handed out: with
\* first_byte = 0 nothing is left, except between a read and more_events.
BufferEnd ==
  IF pc = "advance" THEN bytes + this_bytes
                    ELSE IF first_byte = 0 THEN 0 ELSE bytes

\* The events between first_byte and the end of the buffer.  NoEvent stands
\* for bytes that are not one whole event.
Buffered ==
  LET from[o \in Nat] ==
        IF o = BufferEnd THEN << >>
        ELSE IF \/ o \notin DOMAIN evbuf
                \/ evbuf[o] = NoEvent
                \/ o + evbuf[o].size > BufferEnd
               THEN <<NoEvent>>
               ELSE <<evbuf[o]>> \o from[o + evbuf[o].size]
  IN  from[first_byte]

\* The cursors never leave the buffer and never stand inside an event: the
\* code's own assertion first_byte <= bytes does not fail, its branch for an
\* incomplete event is not needed, and read() always finds room.
CursorsSound ==
  /\ first_byte <= BufferEnd /\ BufferEnd <= Cap
  /\ \A k \in 1..Len(Buffered) : Buffered[k] # NoEvent
  /\ pc = "read" => bytes = 0

\* next_events is a FIFO channel, whatever the sizes of the events, however
\* reads batch them, and wherever calls time out, fail or are interrupted:
\* no event is lost, duplicated, reordered or returned though the filter
\* excludes it.
Channel == INSTANCE EventChannel WITH pending <- Buffered \o kq
FifoDelivery == Channel!Spec

\* "or NULL if function timed out before an event occurred" (inotifytools.h,
\* on inotifytools_next_event) and "None on timeout or error (see error)"
\* (next_event): a call that was to block returns nothing only with error
\* set.
NullMeansTimeoutOrError ==
  pc = "out" /\ ret = "null" /\ ~timed /\ want >= 1 => error # 0

Reportable(s) == \E k \in 1..Len(s) : s[k] # NoEvent /\ ~s[k].skip

\* A call with a timeout returns, and so does a blocking call once an event
\* it has to report is pending.  (Each event that is filtered out starts the
\* timeout anew, as inotifytools.h says; there are finitely many here.)
CallReturns ==
  /\ (pc # "out" /\ timed) ~> (pc = "out")
  /\ (pc # "out" /\ Reportable(Buffered \o kq)) ~> (pc = "out")

\* "maximum amount of time, in seconds, to wait for an event" (inotifytools.h,
\* on the timeout of inotifytools_next_events).
TimedCallReturns == (pc # "out" /\ timed) ~> (pc = "out")

\* "Get the next inotify event to occur" (inotifytools.h): an event returned
\* is one of the instance that is open, not of one that cleanup() closed.
EventsAreCurrent ==
  ret = "event" => delivered[Len(delivered)].n > opened_at
=============================================================================
