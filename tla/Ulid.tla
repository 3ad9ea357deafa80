-------------------------------- MODULE Ulid --------------------------------
(***************************************************************************)
(* The identifiers of internal/ulid.  A caller reads the clock, then takes *)
(* the mutex and draws or increments the random part.  Between the two     *)
(* another caller may draw for another millisecond, and the clock may be   *)
(* set back.  The widths are constants: 8, 6, 10 and 5 in the code.        *)
(***************************************************************************)
EXTENDS Integers, Sequences, SequencesExt

CONSTANTS
    Callers,     \* goroutines that want identifiers
    ByteBits,    \* bits of a byte
    MsBytes,     \* bytes of the millisecond part
    RandBytes,   \* bytes of the random part
    DigitBits,   \* bits of a character
    MaxIds       \* bound: identifiers

ASSUME UlidAssumption ==
    /\ ByteBits \in Nat \ {0} /\ MsBytes \in Nat \ {0} /\ RandBytes \in Nat \ {0}
    /\ DigitBits \in Nat \ {0} /\ MaxIds \in Nat

\* Two to the n.
Pow[n \in Nat] == IF n = 0 THEN 1 ELSE 2 * Pow[n - 1]

Rands == Pow[ByteBits * RandBytes]
Millis == 0..(Pow[ByteBits * MsBytes] - 1)

VARIABLES
    clock,      \* the wall clock, in milliseconds
    setBack,    \* history: whether the clock went back
    read,       \* the millisecond each caller read, -1 for none
    lastMs, lastRand,
    issued      \* history: the identifiers in the order of the mutex

vars == <<clock, setBack, read, lastMs, lastRand, issued>>

Init ==
    /\ clock \in Millis
    /\ setBack = FALSE
    /\ read = [c \in Callers |-> -1]
    /\ lastMs = 0 /\ lastRand = 0
    /\ issued = <<>>

Tick ==
    /\ \E t \in Millis : /\ t # clock
                         /\ clock' = t
                         /\ setBack' = (setBack \/ t < clock)
    /\ UNCHANGED <<read, lastMs, lastRand, issued>>

\* time.Now(), before the mutex.
New(c) ==
    /\ read[c] = -1 /\ Len(issued) < MaxIds
    /\ read' = [read EXCEPT ![c] = clock]
    /\ UNCHANGED <<clock, setBack, lastMs, lastRand, issued>>

\* Mutant of Increment: the same random part again.
IncrementNot(r) == r

\* Mutant of Increment: the carry out of the first byte is kept.
IncrementPast(r) == r + 1

\* The bytes from the last to the first, each carry to the next: past the
\* greatest it starts over.
Increment(r) == (r + 1) % Rands

\* Under the mutex: increment in the millisecond of the last identifier,
\* redraw in any other.
NewAt(c) ==
    /\ read[c] # -1
    /\ \E r \in IF read[c] = lastMs THEN {Increment(lastRand)} ELSE 0..(Rands - 1) :
          /\ lastMs' = read[c]
          /\ lastRand' = r
          /\ issued' = Append(issued, [by |-> c, ms |-> read[c], rand |-> r])
    /\ read' = [read EXCEPT ![c] = -1]
    /\ UNCHANGED <<clock, setBack>>

Next == Tick \/ \E c \in Callers : New(c) \/ NewAt(c)

Spec == Init /\ [][Next]_vars
-----------------------------------------------------------------------------
(***************************************************************************)
(* encode: the bytes high first, taken from the last one, DigitBits at a   *)
(* time; what is left over is the first character.                         *)
(***************************************************************************)
Bytes(v, n) == [k \in 1..n |-> (v \div Pow[ByteBits * (n - k)]) % Pow[ByteBits]]
Raw(id) == Bytes(id.ms, MsBytes) \o Bytes(id.rand, RandBytes)

Width == MsBytes + RandBytes
Digits == (ByteBits * Width + DigitBits - 1) \div DigitBits

\* acc holds the bits that do not make a character yet.
TakeByte(b, s) ==
    LET acc == s.acc + b * Pow[s.bits]
        bits == s.bits + ByteBits
        n == bits \div DigitBits
    IN [acc |-> acc \div Pow[DigitBits * n], bits |-> bits % DigitBits,
        out |-> [k \in 1..n |-> (acc \div Pow[DigitBits * (n - k)]) % Pow[DigitBits]] \o s.out]

\* What the loop has after each of the bytes.
Taken(raw) ==
    LET after[k \in 0..Width] ==
            IF k = 0 THEN [acc |-> 0, bits |-> 0, out |-> <<>>]
            ELSE TakeByte(raw[Width + 1 - k], after[k - 1])
    IN after

\* Mutant of Encode: what is left over is dropped.
EncodeDrops(id) ==
    LET s == Taken(Raw(id))[Width]
    IN IF Len(s.out) < Digits THEN <<0>> \o s.out ELSE s.out

Encode(id) ==
    LET s == Taken(Raw(id))[Width]
    IN IF Len(s.out) < Digits THEN <<s.acc % Pow[DigitBits]>> \o s.out ELSE s.out

-----------------------------------------------------------------------------
IdOK(id) == id.by \in Callers /\ id.ms \in Millis /\ id.rand \in 0..(Rands - 1)

TypeOK ==
    /\ clock \in Millis /\ setBack \in BOOLEAN
    /\ read \in [Callers -> Millis \union {-1}]
    /\ lastMs \in Millis /\ lastRand \in 0..(Rands - 1)
    /\ issued \in Seq([by : Callers, ms : Millis, rand : 0..(Rands - 1)])

Sorts(x, y) == x.ms < y.ms \/ (x.ms = y.ms /\ x.rand < y.rand)

\* Between i and j nobody got an identifier of another millisecond, and the
\* random part did not start over.
Undisturbed(i, j) ==
    /\ \A k \in i..j : issued[k].ms = issued[i].ms
    /\ \A k \in i..(j - 1) : issued[k].rand # Rands - 1

\* A caller's later identifier sorts after its earlier one, unless the clock
\* was set back, or they fall in one millisecond and another caller came
\* between with a millisecond it had read earlier, or the random part started
\* over.  Two nodes of one workset in one second are in order only by this.
CallersIdsGrow ==
    \A i, j \in 1..Len(issued) :
        i < j /\ issued[i].by = issued[j].by =>
            \/ Sorts(issued[i], issued[j])
            \/ setBack
            \/ issued[i].ms = issued[j].ms /\ ~Undisturbed(i, j)

Before(s, t) == \E k \in 1..Digits : s[k] < t[k] /\ \A j \in 1..(k - 1) : s[j] = t[j]

\* The characters of a new identifier sort against those of every earlier one
\* as the identifiers do: the store compares nothing but the characters.
EncodeKeepsOrder ==
    issued = <<>> \/
    LET new == Last(issued)
        code == Encode(new)
    IN \A i \in 1..(Len(issued) - 1) :
           LET old == Encode(issued[i])
           IN /\ Sorts(issued[i], new) <=> Before(old, code)
              /\ Sorts(new, issued[i]) <=> Before(code, old)
=============================================================================
