------------------------------- MODULE Query --------------------------------
(***************************************************************************)
(* Decoder.Query (src/pkg/msgpack/decode_query.go): a dotted path is       *)
(* followed through nested maps and arrays, everything beside it is        *)
(* skipped, and `*` collects from every element of an array.  The walk     *)
(* never looks back: it is right only if each level leaves the stream      *)
(* where the level above goes on reading.                                  *)
(*                                                                         *)
(* The stream is a sequence of tokens: container headers with their        *)
(* length, strings and other scalars.  A decoded value is the interval of  *)
(* tokens it was decoded from.  The depth limit of Skip and of             *)
(* decodeInterfaceCond is the subject of StreamDecoder.                    *)
(***************************************************************************)
EXTENDS Integers, Sequences

CONSTANTS
  Streams,   \* token sequences, each one complete value
  Paths,     \* queries, as the sequences of their components
  Numerals,  \* the components that strconv.Atoi accepts
  Atoi       \* and their values

Tokens == [t : {"map", "array"}, n : Nat] \cup [t : {"str", "int", "nil"}, s : STRING]

ASSUME QueryAssumption ==
  /\ \A s \in Streams : s \in Seq(Tokens)
  /\ \A p \in Paths : p \in Seq(STRING)
  /\ Atoi \in [Numerals -> Int]

VARIABLES
  input,        \* the complete stream
  avail,        \* how many of its tokens can be read before an I/O error
  path,         \* the query Query was called with
  pos,          \* the next token
  query,        \* q.query
  key,          \* q.key
  values,       \* q.values
  hasAsterisk,  \* q.hasAsterisk
  stack,        \* calls of queryMapKey and queryArrayIndex in progress
  pc            \* what runs next

call == <<input, avail, path>>
vars == <<call, pos, query, key, values, hasAsterisk, stack, pc>>

-----------------------------------------------------------------------------
(* The values that a token adds to those owed, less the one that it begins. *)
Owed(tok) ==
  CASE tok.t = "map" -> 2 * tok.n - 1
    [] tok.t = "array" -> tok.n - 1
    [] OTHER -> -1

(* Reading k values that begin at p: where they end, by counting the values *)
(* still owed; past the end of what can be read the sum never closes.       *)
EndOf(p, k) ==
  LET owed[e \in p .. avail + 1] ==
        IF e = p THEN k ELSE owed[e - 1] + Owed(input[e - 1])
      ends == {e \in p .. avail + 1 : owed[e] = 0}
  IN IF ends = {} THEN 0 ELSE CHOOSE e \in ends : \A f \in ends : e <= f

(* skipNext: k values are skipped, one Skip after the other.                *)
CanSkip(p, k) == p <= avail + 1 /\ EndOf(p, k) # 0

Fail ==
  /\ pc' = "error"
  /\ UNCHANGED <<call, pos, query, key, values, hasAsterisk, stack>>

(* nextKey: the component before the first dot, and the rest.               *)
nextKey(q) == IF q = <<>> THEN "" ELSE Head(q)
restOf(q) == IF Len(q) <= 1 THEN <<>> ELSE Tail(q)

Frame(kind, n, q) == [kind |-> kind, n |-> n, i |-> 0, query |-> q]
Top == stack[Len(stack)]
Push(f) == Append(stack, f)
Pop == SubSeq(stack, 1, Len(stack) - 1)
Advanced == [stack EXCEPT ![Len(stack)].i = @ + 1]

Init ==
  /\ input \in Streams
  /\ avail \in 0 .. Len(input)
  /\ path \in Paths
  /\ query = path
  /\ pos = 1
  /\ key = ""
  /\ values = <<>>
  /\ hasAsterisk = FALSE
  /\ stack = <<>>
  /\ pc = "query"

-----------------------------------------------------------------------------
(* query at the end of the path: the value is decoded and collected.        *)
Collect ==
  /\ pc = "query"
  /\ nextKey(query) = ""
  /\ IF CanSkip(pos, 1)
     THEN /\ values' = Append(values, <<pos, EndOf(pos, 1)>>)
          /\ pos' = EndOf(pos, 1)
          /\ key' = ""
          /\ query' = restOf(query)
          /\ pc' = "return"
          /\ UNCHANGED <<call, hasAsterisk, stack>>
     ELSE Fail

(* query with a component left: the next code selects queryMapKey or        *)
(* queryArrayIndex, which read the length.                                  *)
Enter(kind) ==
  /\ stack' = Push(Frame(kind, input[pos].n, restOf(query)))
  /\ hasAsterisk' = (hasAsterisk \/ kind = "star")
  /\ pos' = pos + 1
  /\ key' = nextKey(query)
  /\ query' = restOf(query)
  /\ pc' = "loop"
  /\ UNCHANGED <<call, values>>

Descend ==
  /\ pc = "query"
  /\ nextKey(query) # ""
  /\ CASE pos > avail -> Fail
       [] pos <= avail /\ input[pos].t = "map" -> Enter("map")
       [] pos <= avail /\ input[pos].t = "array" /\ nextKey(query) = "*" -> Enter("star")
       [] pos <= avail /\ input[pos].t = "array" /\ nextKey(query) \in Numerals -> Enter("index")
       [] OTHER -> Fail

(* One turn of the loop over the pairs of a map: decodeStringTemp reads the *)
(* key (nil is the empty string), a key that differs has its value skipped. *)
MapKey ==
  /\ pc = "loop"
  /\ Top.kind = "map"
  /\ Top.i < Top.n
  /\ IF pos > avail \/ input[pos].t \notin {"str", "nil"} THEN Fail
     ELSE IF input[pos].s = key
     THEN /\ pos' = pos + 1
          /\ pc' = "query"
          /\ UNCHANGED <<call, query, key, values, hasAsterisk, stack>>
     ELSE IF CanSkip(pos + 1, 1)
     THEN /\ pos' = EndOf(pos + 1, 1)
          /\ stack' = Advanced
          /\ UNCHANGED <<call, query, key, values, hasAsterisk, pc>>
     ELSE Fail

(* Mutant: the element after the one asked for.                             *)
ArrayIndex_OffByOne ==
  /\ pc = "loop"
  /\ Top.kind = "index"
  /\ Top.i < Top.n
  /\ IF Top.i = Atoi[key] + 1
     THEN /\ pc' = "query"
          /\ UNCHANGED <<call, pos, query, key, values, hasAsterisk, stack>>
     ELSE IF CanSkip(pos, 1)
     THEN /\ pos' = EndOf(pos, 1)
          /\ stack' = Advanced
          /\ UNCHANGED <<call, query, key, values, hasAsterisk, pc>>
     ELSE Fail

(* One turn of the loop over the elements of an array, looking for one.     *)
ArrayIndex ==
  /\ pc = "loop"
  /\ Top.kind = "index"
  /\ Top.i < Top.n
  /\ IF Top.i = Atoi[key]
     THEN /\ pc' = "query"
          /\ UNCHANGED <<call, pos, query, key, values, hasAsterisk, stack>>
     ELSE IF CanSkip(pos, 1)
     THEN /\ pos' = EndOf(pos, 1)
          /\ stack' = Advanced
          /\ UNCHANGED <<call, query, key, values, hasAsterisk, pc>>
     ELSE Fail

(* One turn of the wildcard's loop: the rest of the path, from the element. *)
Element ==
  /\ pc = "loop"
  /\ Top.kind = "star"
  /\ Top.i < Top.n
  /\ query' = Top.query
  /\ pc' = "query"
  /\ UNCHANGED <<call, pos, key, values, hasAsterisk, stack>>

(* Mutant: the loop's bound is off by one.                                  *)
LoopEnd_OffByOne ==
  /\ pc = "loop"
  /\ Top.i > Top.n
  /\ hasAsterisk' = (hasAsterisk /\ Top.kind # "star")
  /\ stack' = Pop
  /\ pc' = "return"
  /\ UNCHANGED <<call, pos, query, key, values>>

(* The loop ends without a match, or the wildcard has seen all elements.    *)
LoopEnd ==
  /\ pc = "loop"
  /\ Top.i = Top.n
  /\ hasAsterisk' = (hasAsterisk /\ Top.kind # "star")
  /\ stack' = Pop
  /\ pc' = "return"
  /\ UNCHANGED <<call, pos, query, key, values>>

(* Values left in the container after the one that matched.                 *)
RestOf(f) == IF f.kind = "map" THEN (f.n - f.i - 1) * 2 ELSE f.n - f.i - 1

(* The nested query returned to the level above: inside a wildcard the rest *)
(* of the container is skipped, otherwise the walk is over.                 *)
Return ==
  /\ pc = "return"
  /\ stack # <<>>
  /\ CASE Top.kind = "star" ->
            /\ stack' = Advanced
            /\ pc' = "loop"
            /\ UNCHANGED <<call, pos, query, key, values, hasAsterisk>>
       [] Top.kind # "star" /\ ~hasAsterisk ->
            /\ stack' = Pop
            /\ UNCHANGED <<call, pos, query, key, values, hasAsterisk, pc>>
       [] Top.kind # "star" /\ hasAsterisk /\ CanSkip(pos, RestOf(Top)) ->
            /\ pos' = EndOf(pos, RestOf(Top))
            /\ stack' = Pop
            /\ UNCHANGED <<call, query, key, values, hasAsterisk, pc>>
       [] OTHER -> Fail

Finish ==
  /\ pc = "return"
  /\ stack = <<>>
  /\ pc' = "done"
  /\ UNCHANGED <<call, pos, query, key, values, hasAsterisk, stack>>

Next ==
  \/ Collect \/ Descend \/ MapKey \/ ArrayIndex \/ Element
  \/ LoopEnd \/ Return \/ Finish

Spec == Init /\ [][Next]_vars /\ WF_vars(Next)
-----------------------------------------------------------------------------
(***************************************************************************)
(* Properties                                                              *)
(***************************************************************************)
(* Types; a container in progress has no more turns behind it than its      *)
(* length, and the position never leaves the readable part of the stream.   *)
TypeOK ==
  /\ avail \in 0 .. Len(input)
  /\ pos \in 1 .. avail + 1
  /\ hasAsterisk \in BOOLEAN
  /\ pc \in {"query", "loop", "return", "done", "error"}
  /\ \A d \in 1 .. Len(stack) : stack[d].i \in 0 .. stack[d].n
  /\ \A v \in 1 .. Len(values) : values[v][1] < values[v][2] /\ values[v][2] <= pos

(* src/API.md:381: "Query consumes the entire input stream once".           *)
ConsumesAll == pc = "done" => pos = Len(input) + 1

(* A query ends, with its values or with an error, on every stream.         *)
Terminates == <>(pc \in {"done", "error"})
=============================================================================
