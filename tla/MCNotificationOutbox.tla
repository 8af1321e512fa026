------------------------ MODULE MCNotificationOutbox ------------------------
(* The instances of NotificationOutbox that TLC checks.                    *)
EXTENDS NotificationOutbox, TLC

=============================================================================
