------------------------------ MODULE NtStatus ------------------------------
(***************************************************************************)
(* The codes of Aptx.Posix.Error.h that the program tells apart, and the   *)
(* NT statuses that it turns them into for Dokan.                          *)
(***************************************************************************)
EXTENDS Naturals

EPERM == 1
ENOENT == 2
ESRCH == 3
EINTR == 4
EIO == 5
ENXIO == 6
EBADF == 9
EAGAIN == 11
ENOMEM == 12
EACCES == 13
EFAULT == 14
EEXIST == 17
ENODEV == 19
ENOTDIR == 20
EISDIR == 21
EINVAL == 22
ENFILE == 23
EMFILE == 24
EFBIG == 27
ENOSPC == 28
EROFS == 30
EMLINK == 31
EPIPE == 32
ERANGE == 34
ENAMETOOLONG == 36
ENOTEMPTY == 39
ELOOP == 40
EOVERFLOW == 75
ENOMEDIUM == 123
EMEDIUMTYPE == 124
ERESTARTSYS == 512
ERESTARTNOINTR == 513
ERESTARTNOHAND == 514
ERESTART_RESTARTBLOCK == 516

(* Fault: a code that is not in the table falls out of the switch as 0.    *)
ToNtStatusDefaultsToSuccess(error) ==
    CASE error = ENOENT -> "OBJECT_NAME_NOT_FOUND"
      [] error = EBADF -> "INVALID_HANDLE"
      [] error = EACCES -> "ACCESS_DENIED"
      [] OTHER -> "SUCCESS"

(* Codes with one status are one case.  What is not listed, 0 excepted, is *)
(* just unsuccessful.                                                      *)
ToNtStatus(error) ==
    CASE error = 0 -> "SUCCESS"
      [] error = EPERM -> "NOT_SUPPORTED"
      [] error = ENOENT -> "OBJECT_NAME_NOT_FOUND"
      [] error = ESRCH -> "OBJECTID_NOT_FOUND"
      [] error \in {EINTR, ERESTARTSYS, ERESTARTNOINTR, ERESTARTNOHAND,
                    ERESTART_RESTARTBLOCK} -> "CANCELLED"
      [] error = EIO -> "IO_DEVICE_ERROR"
      [] error = ENXIO -> "NO_SUCH_DEVICE"
      [] error = EBADF -> "INVALID_HANDLE"
      [] error = EAGAIN -> "RETRY"
      [] error \in {ENOMEM, ENFILE, EMFILE} -> "INSUFFICIENT_RESOURCES"
      [] error = EACCES -> "ACCESS_DENIED"
      [] error = EFAULT -> "ACCESS_VIOLATION"
      [] error = EEXIST -> "OBJECT_NAME_COLLISION"
      [] error = ENODEV -> "DEVICE_NOT_CONNECTED"
      [] error = ENOTDIR -> "NOT_A_DIRECTORY"
      [] error = EISDIR -> "FILE_IS_A_DIRECTORY"
      [] error = EINVAL -> "INVALID_PARAMETER"
      [] error \in {EFBIG, ENOSPC} -> "DISK_FULL"
      [] error = EROFS -> "MEDIA_WRITE_PROTECTED"
      [] error \in {EMLINK, ELOOP} -> "REPARSE_POINT_NOT_RESOLVED"
      [] error = EPIPE -> "CONNECTION_DISCONNECTED"
      [] error = ERANGE -> "INTEGER_OVERFLOW"
      [] error = ENAMETOOLONG -> "OBJECT_NAME_INVALID"
      [] error = ENOTEMPTY -> "DIRECTORY_NOT_EMPTY"
      [] error = EOVERFLOW -> "BUFFER_TOO_SMALL"
      [] error = ENOMEDIUM -> "NO_MEDIA_IN_DEVICE"
      [] error = EMEDIUMTYPE -> "UNRECOGNIZED_MEDIA"
      [] OTHER -> "UNSUCCESSFUL"

(* The statuses that callbacks return.                                    *)
Status == {"ACCESS_DENIED", "ACCESS_VIOLATION", "BUFFER_TOO_SMALL", "CANCELLED",
           "CONNECTION_DISCONNECTED", "DEVICE_NOT_CONNECTED",
           "DIRECTORY_NOT_EMPTY", "DISK_FULL", "FILE_IS_A_DIRECTORY",
           "INSUFFICIENT_RESOURCES", "INTEGER_OVERFLOW", "INVALID_HANDLE",
           "INVALID_PARAMETER", "IO_DEVICE_ERROR", "MEDIA_WRITE_PROTECTED",
           "NOT_A_DIRECTORY", "NOT_SUPPORTED", "NO_MEDIA_IN_DEVICE",
           "NO_SUCH_DEVICE", "OBJECTID_NOT_FOUND", "OBJECT_NAME_COLLISION",
           "OBJECT_NAME_INVALID", "OBJECT_NAME_NOT_FOUND",
           "REPARSE_POINT_NOT_RESOLVED", "RETRY", "SUCCESS", "UNRECOGNIZED_MEDIA",
           "UNSUCCESSFUL"}

=============================================================================
