------------------------------ MODULE MCSchema ------------------------------
(* Two programs at a time, on the disk of a clone, of a container (memory/    *)
(* exists), of release v0.1 and of a later one whose init_db had no           *)
(* migrations yet.                                                            *)
EXTENDS Schema

Clone == {}
Container == {"memory/"}
V01 == {"memory/", "messages", "idx_conversation_id", "conversations"}
V05 == V01 \cup {"users", "refresh_tokens", "sessions", "user_preferences",
                 "messages.embedding", "messages.user_id", "conversations.user_id"}

AllOrigins == {Clone, Container, V01, V05}
JustContainer == {Container}
JustV01 == {V01}
=============================================================================
