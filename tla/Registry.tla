------------------------------ MODULE Registry ------------------------------
(***************************************************************************)
(* The registry helpers of xencons.sys (src/src/xencons/registry.c).       *)
(*                                                                         *)
(* Each helper climbs a ladder of allocations, opened keys and Zw calls    *)
(* (Steps below has one row for each) and any rung may fail.  What it      *)
(* returns is the caller's to give back, with RegistryCloseKey,            *)
(* RegistryFreeSzValue or RegistryFreeBinaryValue.  A value is read in two *)
(* calls, its size and then its data, and others may edit it between them. *)
(*                                                                         *)
(* One call is under way at a time: nothing but the value is shared.       *)
(***************************************************************************)
EXTENDS Ladders, FiniteSets

CONSTANTS
    Values,     \* the values others may store under the name
    Arrays,     \* the arrays of strings RegistryUpdateSzValue is given
    BufferNames,\* the buffers of an array of strings, the i-th for string i
    MaxCount    \* bounds the keys and names one call works on

VARIABLES
    call,       \* the helper under way, or what the last one has returned
    blocks,     \* the pool blocks and key handles it holds
    value,      \* the registry: the one named value, or Absent
    written     \* the array of the last update, <<>> if others wrote since

registryVars == <<call, blocks, value, written>>

-----------------------------------------------------------------------------
(* Strings and values.  A string is its name; all that is told apart is    *)
(* its length.                                                             *)

Length == [empty |-> 0, short |-> 4, fits |-> 126, wide |-> 127]

Absent == [type |-> "none", strings |-> <<>>, bytes |-> 0]

\* The NUL terminated strings of the data, one after the other: a REG_SZ has
\* one, a REG_MULTI_SZ ends with an empty one.
WideBytes(strings) ==
    LET upTo[i \in 0 .. Len(strings)] ==
            IF i = 0 THEN 0
            ELSE upTo[i - 1] + 2 * (Length[strings[i]] + 1)
    IN  upTo[Len(strings)]

Sz(strings) ==
    [type |-> "SZ", strings |-> <<Head(strings)>>,
     bytes |-> WideBytes(<<Head(strings)>>)]

MultiSz(strings) ==
    LET data == Append(strings, "empty")
    IN  [type |-> "MULTI_SZ", strings |-> data, bytes |-> WideBytes(data)]

Dword == [type |-> "DWORD", strings |-> <<>>, bytes |-> 4]

Binary(bytes) == [type |-> "BINARY", strings |-> <<>>, bytes |-> bytes]

\* The buffer of the i-th string of an array.
Buffer(i) == BufferNames[i]

-----------------------------------------------------------------------------
(* Mistakes the runs must notice; see "mutants" in PROJECT.json.           *)

CountsTheEnd(strings) ==
    LET ends == {i \in 1 .. Len(strings) : strings[i] = "empty"}
    IN  IF ends = {} THEN strings
        ELSE SubSeq(strings, 1, CHOOSE i \in ends : \A j \in ends : i <= j)

KeepsTheFirst(n) ==
    [i \in 1 .. n |-> Rung("buffer", {Buffer(i)},
                           IF i = 1 THEN {"Array"}
                           ELSE IF i = 2 THEN {} ELSE {Buffer(i - 1)})]

-----------------------------------------------------------------------------
(* Conversions                                                             *)

\* The strings before the first empty one.
UpToEmpty(strings) ==
    LET ends == {i \in 1 .. Len(strings) : strings[i] = "empty"}
    IN  IF ends = {} THEN strings
        ELSE SubSeq(strings, 1, (CHOOSE i \in ends : \A j \in ends : i <= j) - 1)

\* RegistrySzToAnsi takes the first string, RegistryMultiSzToAnsi counts until
\* it finds an empty one.
ToAnsi(v) ==
    IF v.type = "SZ" THEN <<Head(v.strings)>> ELSE UpToEmpty(v.strings)

\* RtlAnsiStringToUnicodeString wants room for the terminator as well.
\* RegistryAnsiToSz casts the room it made to UCHAR, RegistryAnsiToMultiSz to
\* USHORT; a string that does not fit makes them return NULL.
ConversionFits(type, array) ==
    IF type = "SZ"
    THEN WideBytes(<<Head(array)>>) <= Sz(array).bytes % 2^8
    ELSE WideBytes(array) <= MultiSz(array).bytes % 2^16

FromAnsi(type, array) == IF type = "SZ" THEN Sz(array) ELSE MultiSz(array)

Strings == DOMAIN Length

\* Blocks that are no string of an array, and that a helper may hold with one.
Others == {"Array", "Unicode", "Value", "Options", "Control", "Ansi"}

\* No array has more strings than there are buffers.
ASSUME RegistryAssumption ==
    /\ MaxCount \in Nat \ {0}
    /\ BufferNames \in Seq(STRING) /\ BufferNames # <<>>
    /\ \A i, j \in DOMAIN BufferNames : BufferNames[i] = BufferNames[j] => i = j
    /\ \A i \in DOMAIN BufferNames : BufferNames[i] \notin Others
    /\ \A array \in Arrays : /\ array \in Seq(Strings)
                             /\ Len(array) \in 1 .. Len(BufferNames)
    /\ \A v \in Values :
          \/ v.type \in {"none", "DWORD", "BINARY"}
          \/ v.type = "SZ" /\ v.strings \in Seq(Strings) /\ v.strings # <<>>
          \/ /\ v.type = "MULTI_SZ" /\ v.strings \in Seq(Strings)
             /\ Len(ToAnsi(v)) \in 0 .. Len(BufferNames)

-----------------------------------------------------------------------------
(* The ladders                                                             *)

Unicode == Rung("unicode", {"Unicode"}, {})

\* The end of a helper: what it frees before it returns STATUS_SUCCESS.
Done(drops) == RungDrops("done", drops, {})

\* The loop of RegistrySzToAnsi or RegistryMultiSzToAnsi over n strings: the
\* label frees the buffers before this one, and then the array.
Buffers(n) ==
    [i \in 1 .. n |-> Rung("buffer", {Buffer(i)},
                           IF i = 1 THEN {"Array"} ELSE {Buffer(i - 1)})]

ArrayOf(n) == <<Rung("array", {"Array"}, {})>> \o Buffers(n)

\* The query for the size, a block of that size, and the query for the data.
TwoQueries(block, undo) ==
    << Rung("size", {}, undo), Rung("block", {block}, {}),
       Rung("query", {}, {block}) >>

OpenKey == <<Rung("open", {"Key"}, {}), Done({})>>

OpenSoftwareKey == <<Rung("open", {"Key"}, {}), Done({})>>

OpenHardwareKey ==
    <<Rung("device", {"SubKey"}, {})>> \o TwoQueries("Info", {"SubKey"})
        \o <<Rung("open", {"Key"}, {}), Done({"Info", "SubKey"})>>

\* RegistryCreateKey with n names below \Registry\Machine: every key that was
\* made takes the place of its parent, which is closed.
CreateKey(n) ==
    << Rung("copy", {"Buffer"}, {}), Rung("root", {"Key"}, {"Buffer"}),
       Rung("name", {}, {"Key"}) >>
        \o [i \in 1 .. n |-> Rung("child", {}, {})] \o <<Done({"Buffer"})>>

\* And below a key of the caller's, which is not closed.
CreateSubKey(n) ==
    << Unicode, Rung("copy", {"Buffer"}, {"Unicode"}), Rung("name", {}, {"Buffer"}) >>
        \o [i \in 1 .. n |-> IF i = 1 THEN Rung("child", {"Key"}, {})
                                      ELSE Rung("child", {}, {"Key"})]
        \o <<Done({"Buffer", "Unicode"})>>

OpenSubKey ==
    <<Unicode, Rung("open", {"Key"}, {"Unicode"}), Done({"Unicode"})>>

DeleteSubKey ==
    << Unicode, Rung("open", {"SubKey"}, {"Unicode"}),
       Rung("delete", {}, {"SubKey"}), Done({"SubKey", "Unicode"}) >>

Snapshot ==
    << Rung("size", {}, {}), Rung("block", {"Full"}, {}),
       Rung("query", {}, {"Full"}), Rung("basic", {"Basic"}, {}) >>

\* The loop over n names: one is freed as soon as the callback has returned,
\* whatever it returned.
NameRound ==
    << Rung("enumerate", {}, {"Basic"}), Rung("name", {"Ansi"}, {}),
       RungDrops("called", {"Ansi"}, {}), Rung("callback", {}, {}) >>

Rounds(n) == [i \in 1 .. 4 * n |-> NameRound[((i - 1) % 4) + 1]]

EnumerateSubKeys(n) == Snapshot \o Rounds(n) \o <<Done({"Basic", "Full"})>>

\* This one does not test the allocation of the name, see Fail.
EnumerateValues(n) == Snapshot \o Rounds(n) \o <<Done({"Basic", "Full"})>>

DeleteValue ==
    <<Unicode, Rung("deleteValue", {}, {"Unicode"}), Done({"Unicode"})>>

QueryDwordValue ==
    <<Unicode>> \o TwoQueries("Partial", {"Unicode"})
        \o <<Rung("isDword", {}, {}), Done({"Partial", "Unicode"})>>

UpdateDwordValue ==
    << Unicode, Rung("partial", {"Partial"}, {"Unicode"}),
       Rung("set", {}, {"Partial"}), Done({"Partial", "Unicode"}) >>

\* RegistryQuerySzValue when it finds n strings.
QuerySzValue(n) ==
    <<Unicode>> \o TwoQueries("Value", {"Unicode"})
        \o <<Rung("isString", {}, {})>> \o ArrayOf(n)
        \o <<Done({"Value", "Unicode"})>>

QueryBinaryValue ==
    <<Unicode>> \o TwoQueries("Partial", {"Unicode"})
        \o << Rung("isBinary", {}, {}), Rung("data", {"Data"}, {}),
              Done({"Partial", "Unicode"}) >>

UpdateBinaryValue ==
    << Unicode, Rung("partial", {"Partial"}, {"Unicode"}),
       Rung("set", {}, {"Partial"}), Done({"Partial", "Unicode"}) >>

QueryKeyName == TwoQueries("Value", {}) \o ArrayOf(1) \o <<Done({"Value"})>>

QuerySystemStartOption ==
    << Rung("open", {"Control"}, {}), Rung("options", {"Options"}, {"Control"}),
       Rung("scan", {}, {"Options"}) >>
        \o ArrayOf(1) \o <<Done({"Options", "Control"})>>

UpdateSzValue ==
    << Unicode, Rung("partial", {"Partial"}, {"Unicode"}),
       Rung("convert", {}, {"Partial"}), Rung("set", {}, {}),
       Done({"Partial", "Unicode"}) >>

\* The ladder of a helper that works on n strings, keys or names.
Steps(op, n) ==
    CASE op = "OpenKey" -> OpenKey
      [] op = "OpenSoftwareKey" -> OpenSoftwareKey
      [] op = "OpenHardwareKey" -> OpenHardwareKey
      [] op = "CreateKey" -> CreateKey(n)
      [] op = "CreateSubKey" -> CreateSubKey(n)
      [] op = "OpenSubKey" -> OpenSubKey
      [] op = "DeleteSubKey" -> DeleteSubKey
      [] op = "EnumerateSubKeys" -> EnumerateSubKeys(n)
      [] op = "EnumerateValues" -> EnumerateValues(n)
      [] op = "DeleteValue" -> DeleteValue
      [] op = "QueryDwordValue" -> QueryDwordValue
      [] op = "UpdateDwordValue" -> UpdateDwordValue
      [] op = "QuerySzValue" -> QuerySzValue(n)
      [] op = "QueryBinaryValue" -> QueryBinaryValue
      [] op = "UpdateBinaryValue" -> UpdateBinaryValue
      [] op = "QueryKeyName" -> QueryKeyName
      [] op = "QuerySystemStartOption" -> QuerySystemStartOption
      [] op = "UpdateSzValue" -> UpdateSzValue

\* RegistryCloseKey, RegistryFreeSzValue (up to the entry without a buffer)
\* and RegistryFreeBinaryValue, on what a helper has returned.
GivenBack(op, n) ==
    CASE op \in {"OpenKey", "OpenSoftwareKey", "OpenHardwareKey",
                 "CreateKey", "CreateSubKey", "OpenSubKey"} -> {"Key"}
      [] op \in {"QuerySzValue", "QueryKeyName", "QuerySystemStartOption"} ->
            {"Array"} \cup {Buffer(i) : i \in 1 .. n}
      [] op = "QueryBinaryValue" -> {"Data"}
      [] OTHER -> {}

-----------------------------------------------------------------------------
(* Calls                                                                   *)

\* The helpers that work on the named value, and the others.
ValueOps == {"DeleteValue", "QueryDwordValue", "QueryBinaryValue",
             "QuerySzValue", "UpdateDwordValue", "UpdateBinaryValue",
             "UpdateSzValue"}

KeyOps == {"OpenKey", "OpenSoftwareKey", "OpenHardwareKey", "CreateKey",
           "CreateSubKey", "OpenSubKey", "DeleteSubKey", "EnumerateSubKeys",
           "EnumerateValues", "QueryKeyName", "QuerySystemStartOption"}

\* "count" is the n of Steps, "size" what the first query said, "read" what
\* the second one found, "array" and "type" are what an update is given and,
\* for a query, what the value it found was made from.
Idle == [op |-> "none", rung |-> 0, count |-> 0, size |-> 0,
         read |-> Absent, type |-> "none", array |-> <<>>]

RegistryInit ==
    /\ call = Idle
    /\ blocks = {}
    /\ value = Absent
    /\ written = <<>>

Ladder == Steps(call.op, call.count)

Standing == call.op # "none" /\ call.rung <= Len(Ladder)

Step == Ladder[call.rung].step

OnValue == call.op \in ValueOps

CallKeyOp(op) ==
    /\ call.op = "none"
    /\ \E n \in CASE op \in {"EnumerateSubKeys", "EnumerateValues"} -> 0 .. MaxCount
                 [] op \in {"CreateKey", "CreateSubKey"} -> 1 .. MaxCount
                 [] OTHER -> {1} :
            call' = [Idle EXCEPT !.op = op, !.rung = 1, !.count = n]
    /\ UNCHANGED <<blocks, value, written>>

CallValueOp(op) ==
    /\ call.op = "none"
    /\ IF op = "UpdateSzValue"
       THEN \E type \in {"SZ", "MULTI_SZ"}, array \in Arrays :
                call' = [Idle EXCEPT !.op = op, !.rung = 1,
                                     !.type = type, !.array = array]
       ELSE call' = [Idle EXCEPT !.op = op, !.rung = 1]
    /\ UNCHANGED <<blocks, value, written>>

Climb == blocks' = Climbed(Ladder, call.rung, blocks)

Goes(fields) == call' = [fields EXCEPT !.rung = call.rung + 1]

\* ZwQueryValueKey without a buffer: STATUS_BUFFER_TOO_SMALL if there is a value.
QuerySize ==
    /\ Standing /\ OnValue /\ Step = "size" /\ value # Absent
    /\ Goes([call EXCEPT !.size = value.bytes])
    /\ Climb
    /\ UNCHANGED <<value, written>>

\* And with a buffer of that size: it fails if the value has grown since.
QueryData ==
    /\ Standing /\ OnValue /\ Step = "query"
    /\ value # Absent /\ value.bytes <= call.size
    /\ Goes([call EXCEPT !.read = value, !.array = written, !.type = value.type])
    /\ Climb
    /\ UNCHANGED <<value, written>>

\* The tests of what was read or of what is to be written.
Passes ==
    CASE Step = "isDword" -> call.read = Dword
      [] Step = "isBinary" -> call.read.type = "BINARY"
      [] Step = "isString" -> call.read.type \in {"SZ", "MULTI_SZ"}
      [] Step = "convert" -> ConversionFits(call.type, call.array)
      [] OTHER -> TRUE

TestSteps == {"isDword", "isBinary", "isString", "convert"}

Test ==
    /\ Standing /\ Step \in TestSteps /\ Passes
    /\ Goes([call EXCEPT !.count = IF Step = "isString"
                                   THEN Len(ToAnsi(call.read)) ELSE @])
    /\ Climb
    /\ UNCHANGED <<value, written>>

\* ZwSetValueKey and ZwDeleteValueKey.
Change ==
    /\ Standing
    /\ \/ /\ Step = "set"
          /\ value' = CASE call.op = "UpdateSzValue" ->
                                FromAnsi(call.type, call.array)
                        [] call.op = "UpdateDwordValue" -> Dword
                        [] OTHER -> Binary(4)
          /\ written' = call.array
       \/ /\ Step = "deleteValue" /\ value # Absent
          /\ value' = Absent
          /\ written' = <<>>
    /\ Goes(call)
    /\ Climb

\* Any other rung.
Proceed ==
    /\ Standing
    /\ Step \notin TestSteps \cup {"set", "deleteValue"}
    /\ ~(OnValue /\ Step \in {"size", "query"})
    /\ Goes(call)
    /\ Climb
    /\ UNCHANGED <<value, written>>

\* goto fail<n>.  RegistryEnumerateValues goes on without a name, and the
\* conversion writes through NULL: the model takes that allocation to succeed.
Fail ==
    /\ Standing
    /\ Step \notin {"called", "done"}
    /\ Step \in TestSteps => ~Passes
    /\ ~(call.op = "EnumerateValues" /\ Step = "name")
    /\ blocks' = blocks \ Unwound(Ladder, call.rung)
    /\ call' = Idle
    /\ UNCHANGED <<value, written>>

\* The caller is done with what was returned.
GiveBack ==
    /\ call.op # "none" /\ ~Standing
    /\ blocks' = blocks \ GivenBack(call.op, call.count)
    /\ call' = Idle
    /\ UNCHANGED <<value, written>>

\* Somebody edits the value.
Edit(v) ==
    /\ value' = v
    /\ written' = <<>>
    /\ UNCHANGED <<call, blocks>>

RegistryNext ==
    \/ \E op \in KeyOps : CallKeyOp(op)
    \/ \E op \in ValueOps : CallValueOp(op)
    \/ QuerySize \/ QueryData \/ Test \/ Change \/ Proceed \/ Fail \/ GiveBack
    \/ \E v \in Values : Edit(v)

-----------------------------------------------------------------------------
(* Properties                                                              *)

\* Whatever rung a helper fails at, its labels give back what the call holds
\* and nothing else; and when the caller has freed what was returned, no pool
\* block and no key handle is left: nothing leaks and nothing is freed twice.
NothingLeaks ==
    /\ Standing => Unwound(Ladder, call.rung) \subseteq blocks
    /\ call.op = "none" => blocks = {}

\* An array of strings that RegistryUpdateSzValue could write, and that nobody
\* wrote over, comes back from RegistryQuerySzValue as it was: its first string
\* for a REG_SZ, all of it for a REG_MULTI_SZ without an empty string.
ReadsBack ==
    /\ call.op = "QuerySzValue" /\ ~Standing
    /\ call.array # <<>>
    => LET n == Cardinality({b \in blocks : b # "Array"})
       IN  CASE call.type = "SZ" ->
                    n = 1 /\ ToAnsi(call.read) = <<Head(call.array)>>
             [] call.type = "MULTI_SZ" ->
                    (\A i \in 1 .. Len(call.array) : call.array[i] # "empty")
                        => /\ n = Len(call.array)
                           /\ ToAnsi(call.read) = call.array

=============================================================================
