--------------------------------- MODULE Schema ---------------------------------
(***************************************************************************)
(* The migrations (migrations/index.ts), in the order of their             *)
(* registration.  A statement makes one table, column group or partition,  *)
(* if it is not there: <<x, R>> makes x and refers to the tables of R.     *)
(***************************************************************************)
EXTENDS Sequences

CoreTables == <<
  << <<"users", {}>> >>,
  << <<"trains", {}>>, <<"bookings", {"users", "trains"}>> >>,
  << <<"seats", {"trains", "users", "bookings"}>>, <<"queue_tokens", {"users"}>> >>,
  << <<"payments", {"users", "bookings"}>>, <<"notifications", {"users"}>> >> >>

ServiceTables == <<
  << <<"stations", {}>>, <<"events", {}>> >>,
  << <<"refunds", {"bookings", "payments", "users"}>>, <<"user_devices", {"users"}>> >>,
  << <<"users.lockout", {"users"}>> >>,
  << <<"loyalty_accounts", {"users"}>>, <<"loyalty_transactions", {"users"}>>,
     <<"loyalty_rewards", {}>>, <<"chatbot_training", {}>> >>,
  << <<"refunds.engine", {"refunds", "users"}>> >> >>

Partitioning == <<
  << <<"queue_position_seq", {"queue_tokens"}>> >>,
  << <<"users.aadhaar", {"users"}>> >>,
  << <<"pending_otps", {}>> >>,
  << <<"bookings_partitioned", {}>>,
     <<"bookings_p_year", {"bookings_partitioned"}>>,
     <<"bookings_copied", {"bookings", "bookings_partitioned"}>> >>,
  << <<"audit_logs_partitioned", {}>>,
     <<"audit_logs_p_years", {"audit_logs_partitioned"}>> >>,
  << <<"pg_partman, or a warning", {}>> >> >>

LaterTables == <<
  << <<"notifications.retry", {"notifications"}>> >>,
  << <<"aadhaar_consents", {"users"}>> >>,
  << <<"audit_logs", {}>>, <<"wallets", {"users"}>>,
     <<"wallet_transactions", {"wallets"}>>, <<"coupons", {}>>,
     <<"train_coaches", {"trains"}>>, <<"train_routes", {"trains", "stations"}>>,
     <<"live_train_status", {"trains", "stations"}>> >>,
  << <<"saved_passengers", {"users"}>>, <<"users.admin_mfa", {"users"}>> >> >>

LastTables == <<
  << <<"booking_waitlist", {"users"}>>, <<"event_bookings", {"users", "events"}>>,
     <<"event_seats", {"events", "users", "event_bookings"}>> >>,
  << <<"live_train_status.last_updated", {"live_train_status"}>> >>,
  << <<"users.webauthn", {"users"}>> >>,
  << <<"platform_tickets", {"users", "stations"}>> >> >>

\* Mutant of Migrations: the services' tables are registered first.
MigrationsServicesFirst ==
  ServiceTables \o CoreTables \o Partitioning \o LaterTables \o LastTables

Migrations == CoreTables \o ServiceTables \o Partitioning \o LaterTables \o LastTables
=================================================================================
