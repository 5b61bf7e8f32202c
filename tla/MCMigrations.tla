----------------------------- MODULE MCMigrations -----------------------------
EXTENDS Migrations, Sequences

\* The six files of internal/store/migrations: 001-004 create tables and indexes, 005
\* adds one column to servers, 006 adds two.
SixFiles ==
  << <<"create", "create", "create", "create", "create">>, <<"create">>,
     <<"create", "create", "create", "create">>, <<"create">>, <<"alter">>, <<"alter", "alter">> >>
=============================================================================
