----------------------------- MODULE Pagination -----------------------------
(***************************************************************************)
(* Keyset pagination: internal/x/pagination.  Rows are their own integer   *)
(* keys, as events are (eventCursor is the id).  A page token is the       *)
(* record its base64 encodes; NoToken is the empty string.  Walking        *)
(* forward goes to lower (older) keys, backward to higher (newer) ones,    *)
(* the convention of every Source of the store.                            *)
(***************************************************************************)
EXTENDS Integers, FiniteSets, SequencesExt

NoCursor == 0
NoToken  == [cursor |-> NoCursor, backward |-> FALSE]

Token(cursor, backward) == [cursor |-> cursor, backward |-> backward]

(* A set of keys in ascending order.                                        *)
Ordered(keys) ==
  [i \in 1..Cardinality(keys) |->
     CHOOSE k \in keys : Cardinality({j \in keys : j < k}) = i - 1]

(* ... WHERE id > cursor ORDER BY id ASC LIMIT limit.                       *)
Asc(keys, cursor, limit) ==
  LET newer == Ordered({k \in keys : k > cursor})
  IN  SubSeq(newer, 1, IF limit < Len(newer) THEN limit ELSE Len(newer))

(* ... WHERE NOT use_cursor OR id < cursor ORDER BY id DESC LIMIT limit.    *)
Desc(keys, cursor, limit) ==
  LET older == Reverse(Ordered({k \in keys : cursor # NoCursor => k < cursor}))
  IN  SubSeq(older, 1, IF limit < Len(older) THEN limit ELSE Len(older))

Query(keys, token, limit) ==
  IF token.backward THEN Asc(keys, token.cursor, limit)
                    ELSE Desc(keys, token.cursor, limit)

(* The page of the rows kept, with both continuation tokens from its        *)
(* boundary rows: forward to older rows while there are some, backward to   *)
(* newer ones always.  An empty follow-poll echoes its token; an empty      *)
(* forward page has none.                                                   *)
Page(items, more, token, reverse) ==
  [items |-> IF token.backward # reverse THEN Reverse(items) ELSE items,
   more  |-> more,
   next  |-> IF items = <<>> THEN NoToken
             ELSE IF token.backward THEN Token(Head(items), FALSE)
             ELSE IF more THEN Token(Last(items), FALSE)
             ELSE NoToken,
   prev  |-> IF items # <<>> THEN Token(IF token.backward THEN Last(items)
                                        ELSE Head(items), TRUE)
             ELSE IF token.backward THEN token
             ELSE NoToken]

(* One page: one row more than asked for tells whether there are more.      *)
List(keys, size, token, reverse) ==
  LET pages == {Page(IF Len(rows) > size THEN Front(rows) ELSE rows,
                     Len(rows) > size, token, reverse) :
                  rows \in {Query(keys, token, size + 1)}}
  IN  CHOOSE page \in pages : TRUE

=============================================================================
