------------------------------ MODULE CString ------------------------------
(***************************************************************************)
(* libraries/libc/lib/string.c: a caller owns a buffer of Size bytes and   *)
(* copies, appends, clears and prints into it, one call after the other; a *)
(* byte on either side of the buffer belongs to somebody else.  The        *)
(* formatter _sprintf_cb is an empty stub, so that vsnprintf touches       *)
(* neither the buffer nor its context, and returns 0.                      *)
(***************************************************************************)
EXTENDS Integers, Sequences

CONSTANTS Size,     \* of the buffer
          Sources,  \* the strings copied, as sequences of characters
          Chars     \* the characters in them

ASSUME StringAssumption ==
    /\ Size \in Nat \ {0}
    /\ Chars \subseteq Nat \ {0} /\ Sources \subseteq Seq(Chars)

VARIABLES
    mem,   \* the bytes -1 .. Size; the buffer is 0 .. Size-1
    text,  \* the string that should be in the buffer
    call,  \* the last function called
    ret    \* the last length returned

strVars == <<mem, text, call, ret>>

Foreign == -1     \* the value of a byte outside the buffer

StrInit ==
    /\ mem = [i \in -1 .. Size |-> IF i \in 0 .. Size - 1 THEN 0 ELSE Foreign]
    /\ text = <<>> /\ call = "none" /\ ret = 0

----------------------------------------------------------------------------
(* The functions of string.c, on memory m from index at on. *)
CStr(s) == [i \in 0 .. Len(s) |-> IF i < Len(s) THEN s[i + 1] ELSE 0]

StrNLen(m, at, count) ==
    CHOOSE len \in 0 .. count : /\ len = count \/ m[at + len] = 0
                                /\ \A i \in 0 .. len - 1 : m[at + i] # 0

MemCpy(m, at, src, len) ==
    [i \in DOMAIN m |-> IF i \in at .. at + len - 1 THEN src[i - at] ELSE m[i]]

StrNCmp(a, b, n) ==
    LET i == CHOOSE i \in 0 .. n : /\ i = n \/ a[i] = 0 \/ a[i] # b[i]
                                   /\ \A j \in 0 .. i - 1 : a[j] # 0 /\ a[j] = b[j]
    IN  IF i = n THEN 0 ELSE a[i] - b[i]

(* strlcpy: the memory and the result.  A source that fits is copied with  *)
(* its terminator, and a second 0 is stored behind it.                     *)
StrLCpyUnbounded(m, at, src, maxlen) ==   \* mutant: no "if (len >= maxlen)"
    LET needed == StrNLen(CStr(src), 0, maxlen - 1) + 1
    IN  [mem |-> [MemCpy(m, at, CStr(src), needed) EXCEPT ![at + needed] = 0],
         ret |-> needed - 1]
StrLCpy(m, at, src, maxlen) ==
    LET needed == StrNLen(CStr(src), 0, maxlen - 1) + 1
        len == IF needed >= maxlen THEN maxlen - 1 ELSE needed
    IN  [mem |-> [MemCpy(m, at, CStr(src), len) EXCEPT ![at + len] = 0],
         ret |-> needed - 1]

StrLCat(m, src, maxlen) ==
    LET used == StrNLen(m, 0, maxlen - 1)
        r == StrLCpy(m, used, src, maxlen - used)
    IN  [mem |-> r.mem, ret |-> used + r.ret]

----------------------------------------------------------------------------
Cut(s, n) == SubSeq(s, 1, IF n < Len(s) THEN n ELSE Len(s))

CopyString(src, maxlen) ==
    LET r == StrLCpy(mem, 0, src, maxlen) IN
    /\ mem' = r.mem /\ ret' = r.ret /\ call' = "strlcpy"
    /\ text' = Cut(src, maxlen - 1)

AppendString(src, maxlen) ==
    LET r == StrLCat(mem, src, maxlen) IN
    /\ mem' = r.mem /\ ret' = r.ret /\ call' = "strlcat"
    /\ text' = Cut(text \o src, maxlen - 1)

Clear(len) ==   \* memset(dst, 0, len)
    /\ mem' = MemCpy(mem, 0, [i \in 0 .. len - 1 |-> 0], len)
    /\ text' = <<>> /\ call' = "memset"
    /\ UNCHANGED ret

Vsnprintf ==   \* vsnprintf with any size and format
    /\ ret' = 0 /\ call' = "vsnprintf"
    /\ UNCHANGED <<mem, text>>

StrNext ==
    \/ \E s \in Sources, n \in 1 .. Size : CopyString(s, n) \/ AppendString(s, n)
    \/ \E n \in 1 .. Size : Clear(n)
    \/ Vsnprintf
StrSpec == StrInit /\ [][StrNext]_strVars

----------------------------------------------------------------------------
Sign(a) == IF a < 0 THEN -1 ELSE IF a > 0 THEN 1 ELSE 0

(* s precedes t in the order of the dictionary: at the first place where   *)
(* they differ, s has ended or has the lower character.                    *)
Precedes(s, t) ==
    \E k \in 1 .. Len(t) : /\ \A j \in 1 .. k - 1 : j <= Len(s) /\ s[j] = t[j]
                           /\ k = Len(s) + 1 \/ (k <= Len(s) /\ s[k] < t[k])
Order(s, t) == IF s = t THEN 0 ELSE IF Precedes(s, t) THEN -1 ELSE 1

(* After any sequence of copies, appends, clears and prints that were      *)
(* given at most the room there is (string.c:87-107), the buffer holds the *)
(* text cut to that room, terminated inside it, and no byte outside was    *)
(* written.  The result of a copy or an append is the length of what is in *)
(* the buffer, so that the caller cannot see that it was cut (string.c:98, *)
(* 106).  strncmp on the result is the dictionary order of the first n     *)
(* characters, the order that bspFindEntity relies on.                     *)
StringsSound ==
    /\ mem[Size] = Foreign /\ mem[-1] = Foreign
    /\ StrNLen(mem, 0, Size) = Len(text)
    /\ \A i \in 1 .. Len(text) : mem[i - 1] = text[i]
    /\ call \in {"strlcpy", "strlcat"} => ret = Len(text)
    /\ \A s \in Sources, n \in 1 .. Size :
          /\ Sign(StrNCmp(mem, CStr(s), n)) = Order(Cut(text, n), Cut(s, n))
          /\ Sign(StrNCmp(CStr(s), mem, n)) = Order(Cut(s, n), Cut(text, n))
============================================================================
