-------------------------------- MODULE Hash --------------------------------
(***************************************************************************)
(* The hash table of lib/kernel/hash.c: chained buckets, a bucket count    *)
(* that follows the number of elements as far as memory allows, and        *)
(* iterators.  A bucket is a sequence of elements <<key, name>>.           *)
(***************************************************************************)
EXTENDS Naturals, Sequences, SequencesExt, Functions, FiniteSets

CONSTANTS Element, NULL,
          hash(_),       \* hash value of a key
          MinBuckets,    \* 4 in the code
          BEST_ELEMS_PER_BUCKET

VARIABLES elem_cnt,
          buckets,    \* [0 .. bucket_cnt - 1 -> Seq(Element)]
          it,         \* iterator: <<bucket, position>>, or NULL
          visited,    \* what it has returned
          answer      \* the last call and what it returned
hashVars == <<elem_cnt, buckets, it, visited, answer>>

bucket_cnt == Cardinality(DOMAIN buckets)

\* hash_init: the first buckets, empty.
HashInit ==
  /\ elem_cnt = 0 /\ buckets = [b \in 0 .. MinBuckets - 1 |-> <<>>]
  /\ it = NULL /\ visited = <<>> /\ answer = <<"none", NULL, NULL>>

\* hash & (bucket_cnt - 1), for a bucket count that is a power of 2.
find_bucket(x, cnt) == hash(x[1]) % cnt

\* The first element of a bucket that is neither less nor greater.
find_elem(x, bucket) ==
  LET s == {i \in DOMAIN bucket : bucket[i][1] = x[1]}
  IN IF s = {} THEN NULL ELSE bucket[CHOOSE i \in s : \A j \in s : i <= j]

insert_elem(bs, x) == [bs EXCEPT ![find_bucket(x, bucket_cnt)] = <<x>> \o @]
remove_elem(bs, x) == [b \in DOMAIN bs |-> SelectSeq(bs[b], LAMBDA y : y # x)]

\* is_power_of_2, and what turning off low bits leads to.
is_power_of_2(n) == \E k \in 0 .. n : n = 2 ^ k
RoundedDown(n) == CHOOSE p \in 1 .. n : is_power_of_2(p) /\ 2 * p > n

NewBucketCnt(cnt) == RoundedDown(IF cnt \div BEST_ELEMS_PER_BUCKET < MinBuckets THEN MinBuckets
                                 ELSE cnt \div BEST_ELEMS_PER_BUCKET)

Elems(bs) == UNION {Range(bs[b]) : b \in DOMAIN bs}

\* The elements in the order they are moved, each to the front of its bucket.
AllElems(bs) == FlattenSeq([i \in 1 .. Cardinality(DOMAIN bs) |-> bs[i - 1]])
Moved(bs, cnt) ==
  LET all == AllElems(bs) IN [b \in 0 .. cnt - 1 |-> Reverse(SelectSeq(all, LAMBDA x : find_bucket(x, cnt) = b))]

\* rehash: the new buckets, or the old ones if there is no memory.
rehash(bs, cnt) ==
  /\ elem_cnt' = cnt
  /\ \/ buckets' = IF NewBucketCnt(cnt) = bucket_cnt THEN bs ELSE Moved(bs, NewBucketCnt(cnt))
     \/ buckets' = bs

\* A call that may change the table invalidates iterators.
Returns(op, x, res) == answer' = <<op, x, res>> /\ it' = NULL /\ visited' = <<>>
Lookup(x) == find_elem(x, buckets[find_bucket(x, bucket_cnt)])

hash_insert(x) ==
  LET old == Lookup(x)
  IN /\ IF old = NULL THEN rehash(insert_elem(buckets, x), elem_cnt + 1) ELSE rehash(buckets, elem_cnt)
     /\ Returns("insert", x, old)

\* Mutant: the old element is not taken out.
WithoutKept(bs, old) == bs

Without(bs, old) == IF old = NULL THEN bs ELSE remove_elem(bs, old)

hash_replace(x) ==
  LET old == Lookup(x)
  IN /\ rehash(insert_elem(Without(buckets, old), x), IF old = NULL THEN elem_cnt + 1 ELSE elem_cnt)
     /\ Returns("replace", x, old)

hash_find(x) == answer' = <<"find", x, Lookup(x)>> /\ UNCHANGED <<elem_cnt, buckets, it, visited>>

hash_delete(x) ==
  LET old == Lookup(x)
  IN /\ IF old # NULL THEN rehash(remove_elem(buckets, old), elem_cnt - 1) ELSE UNCHANGED <<elem_cnt, buckets>>
     /\ Returns("delete", x, old)

\* hash_clear with a destructor, which gets every element.
hash_clear ==
  /\ buckets' = [b \in DOMAIN buckets |-> <<>>] /\ elem_cnt' = 0
  /\ Returns("clear", NULL, Elems(buckets))

hash_size == answer' = <<"size", NULL, elem_cnt>> /\ UNCHANGED <<elem_cnt, buckets, it, visited>>

\* hash_first, and hash_next until it returns a null pointer.
hash_first ==
  /\ it' = <<0, 0>> /\ visited' = <<>> /\ answer' = <<"first", NULL, NULL>>
  /\ UNCHANGED <<elem_cnt, buckets>>

\* The front of the next bucket that is not empty.
NextPlaces ==
  {<<b, 1>> : b \in {c \in DOMAIN buckets : /\ c > it[1] /\ buckets[c] # <<>>
                                            /\ \A d \in it[1] + 1 .. c - 1 : buckets[d] = <<>>}}

hash_next ==
  /\ it # NULL /\ it[1] # bucket_cnt
  /\ it' = IF it[2] < Len(buckets[it[1]]) THEN <<it[1], it[2] + 1>>
           ELSE IF NextPlaces # {} THEN CHOOSE p \in NextPlaces : TRUE ELSE <<bucket_cnt, 0>>
  /\ LET found == IF it'[1] = bucket_cnt THEN NULL ELSE buckets[it'[1]][it'[2]]
     IN /\ visited' = (IF found = NULL THEN visited ELSE Append(visited, found))
        /\ answer' = <<"next", NULL, found>>
  /\ UNCHANGED <<elem_cnt, buckets>>

HashNext ==
  \/ hash_clear \/ hash_size \/ hash_first \/ hash_next
  \/ \E x \in Element : hash_insert(x) \/ hash_replace(x) \/ hash_find(x) \/ hash_delete(x)

HashSpec == HashInit /\ [][HashNext]_hashVars
-----------------------------------------------------------------------------
Dict == INSTANCE Dict WITH content <- Elems(buckets), seen <- IF it = NULL THEN NULL ELSE visited

\* The table is a set of elements with distinct keys: every call returns what
\* the set says, through growing, shrinking and failures to do either, and an
\* iteration that is not disturbed returns every element once.
IsDict == Dict!DictSpec
=============================================================================
