---------------------------- MODULE FormatData ----------------------------
(***************************************************************************)
(* Telemetry value formatters (src/ui/src/containers/format-data/          *)
(* format-data.tsx): formatScaled and the formatters built on it, the      *)
(* percent formatter, and the semantic-type dispatch used by the data      *)
(* table renderers and the Vega axes.                                      *)
(*                                                                         *)
(* A measurement is a JS number; the model keeps the numbers whose double  *)
(* is exact: num / den with den a power of two.  A formatted value is the  *)
(* pair <<m, k>> for the decimal m / 10^k that `${...}` renders (k digits  *)
(* after the point); units are the suffix strings, without the non-        *)
(* breaking-space padding of the code.                                     *)
(*                                                                         *)
(* The state is the last call: the formatScaled arguments it reached (or   *)
(* NoArgs) and the DataWithUnits it returned.                              *)
(***************************************************************************)
EXTENDS Integers, Sequences

CONSTANTS
    SemanticTypes,             \* the SemanticType enum values
    ST_BYTES, ST_DURATION_NS, ST_PERCENT,
    ST_THROUGHPUT_PER_NS, ST_THROUGHPUT_BYTES_PER_NS,
    RenderCalls,               \* <<semantic type, measurement <<num, den>>>> rendered
    ScaledCalls,               \* direct formatScaled argument records
    CellCalls,                 \* <<renderer, cell value>> pairs of the column renderers
    StatusTexts,               \* parseInt(data, 10) of HTTP status cells: integers or NaN
    NaN

VARIABLES
    args,   \* formatScaled(value, scale, suffixes, decimals) of the last call, or NoArgs
    out,    \* the DataWithUnits [val, units] the last call returned
    statusCell  \* last HTTPStatusCodeRenderer cell: [code, classes]

vars == <<args, out, statusCell>>

NoArgs == [scale |-> 0]
NoOut == [val |-> <<>>, units |-> ""]

AbsI(x) == IF x < 0 THEN -x ELSE x
MaxI(x, y) == IF x >= y THEN x ELSE y
MinI(x, y) == IF x <= y THEN x ELSE y

RECURSIVE IsPowerOfTwo(_)
IsPowerOfTwo(n) == n = 1 \/ (n > 1 /\ n % 2 = 0 /\ IsPowerOfTwo(n \div 2))

RECURSIVE Gcd(_, _)
Gcd(x, y) == IF y = 0 THEN x ELSE Gcd(y, x % y)

-----------------------------------------------------------------------------
(* formatScaled, lines 91-103                                              *)

\* Mutant: the floor of the logarithm is one too low at exact powers.
RECURSIVE FloorLogLow(_, _)
FloorLogLow(q, b) == IF q <= b THEN 0 ELSE 1 + FloorLogLow(q \div b, b)

\* Math.floor(Math.log(q) / Math.log(b)) for an integer q >= 1.
RECURSIVE FloorLog(_, _)
FloorLog(q, b) == IF q < b THEN 0 ELSE 1 + FloorLog(q \div b, b)

\* Line 93: Math.floor(Math.log(Math.abs(data)) / Math.log(scale)).  For
\* |data| < 1 the logarithm is negative (-Infinity at 0); -1 stands for
\* every negative result, all of which the clamp maps to 0.
RawTier(v, scale) ==
    LET a == AbsI(v[1]) IN
    IF a < v[2] THEN -1 ELSE FloorLog(a \div v[2], scale)

\* Mutant: toFixed truncating instead of rounding to nearest.
ToFixedTrunc(num, div, dm) ==
    LET a == AbsI(num) IN
    {IF num < 0 THEN -((a * 10^dm) \div div) ELSE (a * 10^dm) \div div}

(***************************************************************************)
(* (num / div).toFixed(dm) as the integer m of m / 10^dm.  toFixed rounds  *)
(* the magnitude to nearest and, between two equally near, takes the      *)
(* larger.  A tie is exact in the double only when num / div is a dyadic  *)
(* rational; otherwise the double of num / div lies just below or just    *)
(* above it, so either neighbour may come out.  Computed as quotient and  *)
(* remainder so the products stay small.                                   *)
(***************************************************************************)
ToFixed(num, div, dm) ==
    LET a  == AbsI(num)
        p  == 10^dm
        rr == (a % div) * p
        lo == (a \div div) * p + rr \div div
        fr == rr % div
        mags == IF 2 * fr < div THEN {lo}
                ELSE IF 2 * fr > div \/ IsPowerOfTwo(div \div Gcd(a, div)) THEN {lo + 1}
                ELSE {lo, lo + 1}
    IN {IF num < 0 THEN -m ELSE m : m \in mags}

\* `${parseFloat(s)}` of a toFixed string: trailing zeros after the point,
\* and then the point, are dropped.
RECURSIVE Shortest(_, _)
Shortest(m, k) == IF k > 0 /\ m % 10 = 0 THEN Shortest(m \div 10, k - 1) ELSE <<m, k>>

\* The possible results of formatScaled(a.value, a.scale, a.suffixes, a.decimals).
FormatScaled(a) ==
    LET dm == IF a.decimals < 0 THEN 0 ELSE a.decimals
        i  == MaxI(0, MinI(RawTier(a.value, a.scale), Len(a.suffixes) - 1))
    IN {[val |-> Shortest(m, dm), units |-> a.suffixes[i + 1]] :
            m \in ToFixed(a.value[1], a.value[2] * a.scale^i, dm)}

-----------------------------------------------------------------------------
(* The formatters built on formatScaled, lines 105-131, as the arguments   *)
(* they pass to it.                                                        *)

BytesSuffixes == <<"B", "KB", "MB", "GB", "TB", "PB", "EB", "ZB", "YB">>
DurationSuffixes == <<"ns", "us", "ms", "s">>
ThroughputSuffixes == <<"/s", "K/s", "M/s", "B/s">>
ThroughputBytesSuffixes == <<"B/s", "KB/s", "MB/s", "GB/s">>

\* data * 1E9: a per-nanosecond rate as a per-second rate.
PerSecond(v) == <<v[1] * 1000000000, v[2]>>

BytesArgs(v) == [value |-> v, scale |-> 1024, suffixes |-> BytesSuffixes, decimals |-> 1]
DurationArgs(v) == [value |-> v, scale |-> 1000, suffixes |-> DurationSuffixes, decimals |-> 1]
ThroughputArgs(v) ==
    [value |-> PerSecond(v), scale |-> 1000, suffixes |-> ThroughputSuffixes, decimals |-> 1]
ThroughputBytesArgs(v) ==
    [value |-> PerSecond(v), scale |-> 1024, suffixes |-> ThroughputBytesSuffixes, decimals |-> 1]

\* formatPercent, lines 210-218: (100 * data).toFixed(1), trailing zero kept.
FormatPercent(v) == {[val |-> <<m, 1>>, units |-> "%"] : m \in ToFixed(100 * v[1], v[2], 1)}

\* getFormatFnMetadata, lines 245-261: the formatter's name, or null.
getFormatFnMetadata(st) ==
    CASE st = ST_BYTES                   -> "formatBytes"
      [] st = ST_DURATION_NS             -> "formatDuration"
      [] st = ST_PERCENT                 -> "formatPercent"
      [] st = ST_THROUGHPUT_PER_NS       -> "formatThroughput"
      [] st = ST_THROUGHPUT_BYTES_PER_NS -> "formatThroughputBytes"
      [] OTHER                           -> "null"

\* The formatScaled arguments a named formatter passes (NoArgs for the
\* formatters that do not go through formatScaled).
ScaledArgsOf(fn, v) ==
    CASE fn = "formatBytes"           -> BytesArgs(v)
      [] fn = "formatDuration"        -> DurationArgs(v)
      [] fn = "formatThroughput"      -> ThroughputArgs(v)
      [] fn = "formatThroughputBytes" -> ThroughputBytesArgs(v)
      [] OTHER                        -> NoArgs

\* formatBySemType, lines 264-273: the formatter's result, or the raw value
\* with empty units when the semantic type has no formatter.
FormatBySemType(st, v) ==
    LET fn == getFormatFnMetadata(st) IN
    CASE fn = "null"          -> {[val |-> v, units |-> ""]}
      [] fn = "formatPercent" -> FormatPercent(v)
      [] OTHER                -> FormatScaled(ScaledArgsOf(fn, v))

\* The column renderers, lines 155-167 and 224-236: each passes the cell to
\* one formatter and shows its DataWithUnits through RenderValueWithUnits
\* (lines 145-153).  DurationRenderer also picks a latency colour with
\* getLatencyNSLevel, which is outside this tree.
RendererFormatter(r) ==
    CASE r = "BytesRenderer"           -> "formatBytes"
      [] r = "DurationRenderer"        -> "formatDuration"
      [] r = "PercentRenderer"         -> "formatPercent"
      [] r = "ThroughputRenderer"      -> "formatThroughput"
      [] r = "ThroughputBytesRenderer" -> "formatThroughputBytes"

-----------------------------------------------------------------------------
(* HTTPStatusCodeRenderer, lines 191-208: the classes buildClass joins.    *)

LevelClasses ==
    {"oneHundredLevel", "twoHundredLevel", "threeHundredLevel",
     "fourHundredLevel", "fiveHundredLevel"}

\* Mutant: the 1xx test reaching into 200.
InStatusLevelLoose(c, v) ==
    CASE c = "oneHundredLevel"   -> v > 0 /\ v <= 200
      [] c = "twoHundredLevel"   -> v >= 200 /\ v < 300
      [] c = "threeHundredLevel" -> v >= 300 /\ v < 400
      [] c = "fourHundredLevel"  -> v >= 400 /\ v < 500
      [] c = "fiveHundredLevel"  -> v >= 500

\* The condition guarding level class c (lines 197-201); every comparison
\* with NaN is false.
InStatusLevel(c, v) ==
    CASE c = "oneHundredLevel"   -> v > 0 /\ v < 200
      [] c = "twoHundredLevel"   -> v >= 200 /\ v < 300
      [] c = "threeHundredLevel" -> v >= 300 /\ v < 400
      [] c = "fourHundredLevel"  -> v >= 400 /\ v < 500
      [] c = "fiveHundredLevel"  -> v >= 500

HttpStatusClasses(v) ==
    {"root"}
    \cup (IF v # NaN /\ v < 0 THEN {"unknown"} ELSE {})
    \cup {c \in LevelClasses : v # NaN /\ InStatusLevel(c, v)}

-----------------------------------------------------------------------------
Init == args = NoArgs /\ out = NoOut /\ statusCell = [code |-> NaN, classes |-> {}]

\* A caller (a Vega axis, a table cell) formats a value of a column with
\* semantic type st.
RenderBySemType(st, v) ==
    /\ args' = ScaledArgsOf(getFormatFnMetadata(st), v)
    /\ out' \in FormatBySemType(st, v)
    /\ UNCHANGED statusCell

\* A column renderer shows a cell.
RenderCell(r, v) ==
    LET fn == RendererFormatter(r) IN
    /\ args' = ScaledArgsOf(fn, v)
    /\ out' \in IF fn = "formatPercent" THEN FormatPercent(v)
                                        ELSE FormatScaled(ScaledArgsOf(fn, v))
    /\ UNCHANGED statusCell

\* Any other caller of the exported formatScaled.
CallFormatScaled(a) ==
    /\ args' = a
    /\ out' \in FormatScaled(a)
    /\ UNCHANGED statusCell

\* A table cell of an HTTP status column is rendered.
RenderHttpStatus(v) ==
    /\ statusCell' = [code |-> v, classes |-> HttpStatusClasses(v)]
    /\ UNCHANGED <<args, out>>

Next ==
    \/ \E c \in RenderCalls : RenderBySemType(c[1], c[2])
    \/ \E c \in CellCalls : RenderCell(c[1], c[2])
    \/ \E a \in ScaledCalls : CallFormatScaled(a)
    \/ \E v \in StatusTexts : RenderHttpStatus(v)

Spec == Init /\ [][Next]_vars

-----------------------------------------------------------------------------
(* Properties of every formatScaled result                                 *)

Scaled == args # NoArgs

\* Position of the returned unit in the suffix table (suffixes are distinct).
UnitIndex == CHOOSE j \in 1..Len(args.suffixes) : args.suffixes[j] = out.units

\* b^i <= x for naturals, without computing b^i.
RECURSIVE PowAtMost(_, _, _)
PowAtMost(b, i, x) == IF i = 0 THEN 1 <= x ELSE x >= b /\ PowAtMost(b, i - 1, x \div b)

\* Reference: the largest unit whose scale does not exceed |value|, and the
\* first unit for values below one.
ReferenceUnit(a) ==
    LET x  == AbsI(a.value[1]) \div a.value[2]
        ok == {i \in 0..(Len(a.suffixes) - 1) : PowAtMost(a.scale, i, x)}
    IN IF ok = {} THEN 1 ELSE (CHOOSE i \in ok : \A j \in ok : j <= i) + 1

\* The unit formatScaled picks is the reference unit: floor-of-logarithm
\* and clamp select the largest unit that fits, at exact powers of the
\* scale, for zero, negative and fractional values, and at saturation.
UnitMatchesReference == Scaled => UnitIndex = ReferenceUnit(args)

\* The shown number times the unit's scale is the measurement to within
\* half a unit of the last decimal kept (toFixed then parseFloat), and has
\* its sign.  With |value| = q * div + r, the shown magnitude m / p must
\* satisfy |m * div - (q * div + r) * p| <= div / 2; written with
\* d = m - q * p so that no product exceeds the ones toFixed forms.
RoundedWithinHalfUnit ==
    Scaled =>
      LET dm  == IF args.decimals < 0 THEN 0 ELSE args.decimals
          p   == 10^dm
          div == args.value[2] * args.scale^(UnitIndex - 1)
          a   == AbsI(args.value[1])
          m   == out.val[1] * 10^(dm - out.val[2])
          d   == AbsI(m) - (a \div div) * p
      IN /\ m = 0 \/ (m > 0) = (args.value[1] > 0)
         /\ 2 * AbsI(d * div - (a % div) * p) <= div

\* Every status cell gets at most one colour class, and a valid status code
\* (100-599) gets exactly the class of its hundred: the five range tests of
\* lines 196-201 neither overlap nor leave a gap inside 100-599.
StatusColourUnique ==
    LET colours == statusCell.classes \ {"root"} IN
    /\ \A c1, c2 \in colours : c1 = c2
    /\ statusCell.code # NaN /\ statusCell.code \in 100..599 =>
          colours = {CHOOSE c \in LevelClasses :
                       CASE c = "oneHundredLevel"   -> statusCell.code \div 100 = 1
                         [] c = "twoHundredLevel"   -> statusCell.code \div 100 = 2
                         [] c = "threeHundredLevel" -> statusCell.code \div 100 = 3
                         [] c = "fourHundredLevel"  -> statusCell.code \div 100 = 4
                         [] c = "fiveHundredLevel"  -> statusCell.code \div 100 = 5}

\* Below the last unit the shown number is less than the scale (spec 4.1:
\* the tier "bring[s] it into the [1, base) range for display"): a value
\* just under the next unit is never shown as e.g. "1024 KB".
ShownBelowScale ==
    (Scaled /\ UnitIndex < Len(args.suffixes)) =>
        AbsI(out.val[1]) < args.scale * 10^out.val[2]
=============================================================================
