--------------------------- MODULE TelegramTable ---------------------------
(***************************************************************************)
(* The table telegram_accounts, which /profile/telegram writes and the low *)
(* balance notifier reads.                                                 *)
(***************************************************************************)
CONSTANTS
  Users,     \* user ids
  Chats      \* Telegram account ids

VARIABLE accounts  \* user -> telegram_id
=============================================================================
