--------------------------- MODULE MCFormatData ---------------------------
(* Model-checking instance of FormatData. *)
EXTENDS FormatData

CONSTANTS ST_NONE

MCSemanticTypes ==
    {ST_NONE, ST_BYTES, ST_DURATION_NS, ST_PERCENT,
     ST_THROUGHPUT_PER_NS, ST_THROUGHPUT_BYTES_PER_NS}

\* Cell values around the unit boundaries of each formatter, kept small
\* enough that num * 10 (and num * 1E9 for rates) fits TLC's integers.
ByteValues ==
    {<<0, 1>>, <<1, 2>>, <<1, 1>>, <<1023, 1>>, <<1024, 1>>, <<1536, 1>>,
     <<-1536, 1>>, <<2047, 2>>, <<1048575, 1>>, <<1048576, 1>>, <<134217727, 1>>}
DurationValues ==
    {<<0, 1>>, <<999, 1>>, <<1000, 1>>, <<1050, 1>>, <<1250, 1>>, <<-2500, 1>>,
     <<999999, 1>>, <<1000000, 1>>, <<123456789, 1>>, <<3, 4>>}
\* Per-nanosecond rates; num * 1E9 must stay below 2^31.
RateValues == {<<0, 1>>, <<1, 1>>, <<1, 1024>>, <<-1, 1024>>, <<1, 1048576>>, <<1, 2>>}
PercentValues == {<<0, 1>>, <<1, 4>>, <<1, 8>>, <<-1, 2>>, <<1, 1>>, <<3, 1024>>}

MCRenderCalls ==
    ({ST_BYTES} \X ByteValues) \cup ({ST_DURATION_NS} \X DurationValues)
    \cup ({ST_THROUGHPUT_PER_NS, ST_THROUGHPUT_BYTES_PER_NS} \X RateValues)
    \cup ({ST_PERCENT} \X PercentValues) \cup ({ST_NONE} \X {<<7, 1>>, <<1, 2>>})

MCCellCalls ==
    ({"BytesRenderer"} \X ByteValues) \cup ({"DurationRenderer"} \X DurationValues)
    \cup ({"ThroughputRenderer", "ThroughputBytesRenderer"} \X RateValues)
    \cup ({"PercentRenderer"} \X PercentValues)

\* Direct formatScaled calls with small scales (a dyadic and a decimal one),
\* one to three units so that saturation is reached, and the decimals
\* default (2), 0 and a negative count.
GenericValues ==
    {<<0, 1>>, <<1, 2>>, <<1, 1>>, <<3, 1>>, <<4, 1>>, <<15, 1>>, <<16, 1>>,
     <<63, 1>>, <<64, 1>>, <<100, 1>>, <<-17, 1>>, <<7, 4>>, <<25, 2>>, <<995, 1>>}
GenericSuffixes == {<<"u0">>, <<"u0", "u1">>, <<"u0", "u1", "u2">>}
MCScaledCalls ==
    [value : GenericValues, scale : {4, 10}, suffixes : GenericSuffixes,
     decimals : {-1, 0, 2}]
\* parseInt of status cells: boundaries of every class, zero, negative, NaN.
MCStatusTexts ==
    {NaN, -1, 0, 1, 99, 100, 199, 200, 299, 300, 399, 400, 499, 500, 599, 600}
=============================================================================
