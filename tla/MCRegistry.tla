----------------------------- MODULE MCRegistry -----------------------------
(* Two families U and V of a value type and its pointer, and time.Time.     *)
EXTENDS Registry, TLC

MCValues == {"U", "V", "Time"}
MCPointers == {"*U", "*V", "*Time"}
MCElemOf == "*U" :> "U" @@ "*V" :> "V" @@ "*Time" :> "Time"

(* U marshals by value, V through its pointer, time.Time has both standard  *)
(* library hooks.                                                           *)
MCHooks ==
  "U" :> {"marshal"} @@ "*U" :> {"marshal"} @@ "V" :> {} @@ "*V" :> {"marshal"}
    @@ "Time" :> {"binary", "text"} @@ "*Time" :> {"binary", "text"}

(* U has MarshalBinary on the value and EncodeMsgpack on the pointer.       *)
MixedHooks ==
  "U" :> {"binary"} @@ "*U" :> {"custom", "binary"} @@ "V" :> {} @@ "*V" :> {}
    @@ "Time" :> {"binary", "text"} @@ "*Time" :> {"binary", "text"}

MCRegistrable == {"*U", "*V"}
MCUserTypes == {"V"}
Symmetric == Permutations(Goroutines)
=============================================================================
