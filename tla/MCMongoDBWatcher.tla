------------------------- MODULE MCMongoDBWatcher -------------------------
(* MongoDBWatcher for TLC: a query that joins two collections and a raw   *)
(* feed.                                                                  *)
EXTENDS MongoDBWatcher

CONSTANTS joined, feed, authors, books

JoinReads == [s \in Subs |-> Collections]
=============================================================================
