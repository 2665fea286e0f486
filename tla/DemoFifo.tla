------------------------------ MODULE DemoFifo ------------------------------
(***************************************************************************)
(* The reader of the chip's FIFO in the demo IMU driver: the handler of    *)
(* the watermark interrupt takes a burst of words apart, three to a frame, *)
(* and publishes the samples.  A behaviour is one burst.  Two bytes are    *)
(* put together to a word, so a word is a value here; resolution, scale    *)
(* and time stamp are left out.                                            *)
(***************************************************************************)
EXTENDS Integers, Sequences, SequencesExt, FiniteSetsExt

CONSTANTS
    Firsts,     \* what a sample's first word can be
    Rests,      \* and its other two
    MaxFrames,  \* bound: frames in the FIFO
    MaxFill     \* bound: words read beyond them

EMPTY == "8000"                             \* what an empty FIFO returns
DUMMY == [ACC |-> "7f01", GYR |-> "7f02"]   \* starts a frame without a sample

ASSUME FifoAssumption ==
    /\ \A r \in Rests: r = <<r[1], r[2]>>
    /\ MaxFrames \in Nat /\ MaxFill \in Nat

VARIABLES
    fifo_enabled,   \* the sensors in the FIFO, in the order of their frames
    stored,         \* the frames the chip has stored
    buf,            \* the words that were read
    word,           \* the next one (the code's i), and how many are left
    fifo_len,
    published,      \* the samples, as frames
    reading         \* the loop goes on

fifoVars == <<fifo_enabled, stored, buf, word, fifo_len, published, reading>>

Frame(s, words) == [sensor |-> s, words |-> words]
NoSample(s) == Frame(s, <<DUMMY[s], EMPTY, EMPTY>>)

\* Each sensor in turn stores a sample or, if it had none, a dummy.  A sample
\* does not look like its sensor's dummy, nor the first of a turn like the end.
Storable(s, order) ==
    {NoSample(s)} \cup
    {Frame(s, <<w, r[1], r[2]>>):
        w \in Firsts \ {DUMMY[s], IF s = order[1] THEN EMPTY ELSE DUMMY[s]}, r \in Rests}

Stores(order) ==
    {f \in SeqOf(UNION {Storable(s, order): s \in Range(order)}, MaxFrames):
        \A k \in DOMAIN f: f[k].sensor = order[1 + ((k - 1) % Len(order))]}

\* The k-th word that was stored, and none behind the last one.
WordOf(frames, k) ==
    IF k > 3 * Len(frames) THEN EMPTY
    ELSE frames[1 + ((k - 1) \div 3)].words[1 + ((k - 1) % 3)]

\* What the handler reads first: the words of a burst of frames.
Burst(order, frames, words) ==
    /\ fifo_enabled = order /\ stored = frames
    /\ buf = words /\ fifo_len = Len(words) /\ word = 1
    /\ published = <<>> /\ reading = TRUE

\* The length register may say any number of words.
FifoInit ==
    \E order \in {<<"ACC">>, <<"GYR">>, <<"ACC", "GYR">>}: \E frames \in Stores(order):
        LET fill == IF Len(frames) % Len(order) = 0 THEN MaxFill ELSE 0
        IN  \E n \in 0..(3 * Len(frames) + fill):
                Burst(order, frames, [k \in 1..n |-> WordOf(frames, k)])

Now == [word |-> word, left |-> fifo_len, out |-> published]

\* MUTANT: the last frame of a burst is taken for an incomplete one.
TakeFrame_short(s, r) ==
    CASE s \notin Range(fifo_enabled) -> r
      [] s \in Range(fifo_enabled) /\ r.left <= 3 -> [r EXCEPT !.left = 0]
      [] OTHER ->
           [word |-> r.word + 3, left |-> r.left - 3,
            out |-> IF buf[r.word] = DUMMY[s] THEN r.out
                    ELSE Append(r.out, Frame(s, SubSeq(buf, r.word, r.word + 2)))]

\* One sensor's part of a turn; too few words are dropped.
TakeFrame(s, r) ==
    CASE s \notin Range(fifo_enabled) -> r
      [] s \in Range(fifo_enabled) /\ r.left < 3 -> [r EXCEPT !.left = 0]
      [] OTHER ->
           [word |-> r.word + 3, left |-> r.left - 3,
            out |-> IF buf[r.word] = DUMMY[s] THEN r.out
                    ELSE Append(r.out, Frame(s, SubSeq(buf, r.word, r.word + 2)))]

\* A turn of the loop.  The second look for the end comes to the same as the
\* next turn's first; with no words left it reads behind the buffer, and
\* the loop ends whatever stands there.
demo_handle_wtm_irq_event ==
    /\ reading
    /\ IF fifo_len = 0 \/ buf[word] = EMPTY
         THEN reading' = FALSE /\ UNCHANGED <<word, fifo_len, published>>
         ELSE LET r == TakeFrame("GYR", TakeFrame("ACC", Now))
              IN  /\ word' = r.word /\ fifo_len' = r.left /\ published' = r.out
                  /\ UNCHANGED reading
    /\ UNCHANGED <<fifo_enabled, stored, buf>>

FifoNext == demo_handle_wtm_irq_event

FifoSpec == FifoInit /\ [][FifoNext]_fifoVars
-----------------------------------------------------------------------------
\* The samples among the first k frames, for every k.
Samples ==
    LET upto[k \in 0..Len(stored)] ==
            IF k = 0 THEN <<>>
            ELSE IF stored[k] = NoSample(stored[k].sensor) THEN upto[k - 1]
                 ELSE Append(upto[k - 1], stored[k])
    IN  upto

(* Every sample that was read whole is published, to its own sensor, once
   and in order, and no dummy is: the frames stay aligned over dummies of
   either sensor, over samples that look like the other's dummy or like the
   end, and over a burst that ends inside a frame or a turn. *)
FifoDelivers ==
    LET due == Samples[Min({Len(stored), Len(buf) \div 3})]
    IN  IsPrefix(published, due) /\ (~ reading => published = due)
=============================================================================
