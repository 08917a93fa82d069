------------------------------ MODULE Overlays ------------------------------
(***************************************************************************)
(* The wrappers of components/ui around the Radix layers: whether a layer  *)
(* keeps the page behind it out of reach, and what closes it.  How Radix   *)
(* closes a layer is the library's; which of its parts a wrapper renders,  *)
(* and with which defaults, is the wrapper's.                              *)
(*                                                                         *)
(* escape, outside: the key, a press outside.  close, action, cancel: a    *)
(* button of the layer.  select: an item.  focus: the focus goes           *)
(* elsewhere.  leave: the pointer does.  resize: the window is resized.    *)
(***************************************************************************)
Ways == {"escape", "outside", "close", "action", "cancel", "select", "focus", "leave", "resize"}

Layer(modal, ways) == [modal |-> modal, ways |-> ways]

If(shown, way) == IF shown THEN {way} ELSE {}

(* dialog.tsx: the close button is drawn unless the consumer says otherwise, *)
(* the one of the footer only if it asks for it.                             *)
ModalContent(showCloseButton) == Layer(TRUE, {"escape", "outside"} \cup If(showCloseButton, "close"))
ModalFooter(showCloseButton)  == If(showCloseButton, "close")
Modal(contentClose, footerClose) ==
  Layer(TRUE, ModalContent(contentClose).ways \cup ModalFooter(footerClose))

(* alert-dialog.tsx: no close button, and a press outside does nothing *)
AlertDialogContentLikeModal == {"escape", "outside"}
AlertDialogContent == {"escape"}
AlertDialogAction  == {"action"}
AlertDialogCancel  == {"cancel"}
AlertDialog == Layer(TRUE, AlertDialogContent \cup AlertDialogAction \cup AlertDialogCancel)

SheetContent(showCloseButton) == Layer(TRUE, {"escape", "outside"} \cup If(showCloseButton, "close"))

(* The sheet of a sidebar: the class [&>button]:hidden hides its close button *)
SidebarSheet == SheetContent(FALSE)

Popover   == Layer(FALSE, {"escape", "outside", "focus"})
HoverCard == Layer(FALSE, {"escape", "outside", "focus", "leave"})
Tooltip   == Layer(FALSE, {"escape", "outside", "focus", "leave"})

(* The items of a menu that close it when they are chosen: those that open a *)
(* submenu do not, labels and separators cannot be chosen.                   *)
MenuWays(items, closing) == {"escape", "outside"} \cup If(items \cap closing # {}, "select")

DropdownMenuItems == {"item", "checkbox", "radio"}
DropdownMenu(items) == Layer(TRUE, MenuWays(items, DropdownMenuItems))

ContextMenuItems == {"item", "checkbox", "radio"}
ContextMenu(items) == Layer(TRUE, MenuWays(items, ContextMenuItems))

MenubarItems == {"item", "checkbox", "radio"}
MenubarMenu(items) == Layer(FALSE, MenuWays(items, MenubarItems) \cup {"focus"})

SelectItems == {"select"}
SelectContent == Layer(TRUE, {"escape", "outside", "resize"} \cup SelectItems)
-----------------------------------------------------------------------------
(* The layers of the gallery, one for each entry of the registry with one *)
GalleryAlertDialog  == AlertDialog
GalleryContextMenu  == ContextMenu({"item", "separator"})
GalleryDialog       == Modal(TRUE, FALSE)
GalleryDropdownMenu == DropdownMenu({"label", "separator", "item"})
GalleryHoverCard    == HoverCard
GalleryMenubar      == MenubarMenu({"item"})
GalleryPopover      == Popover
GallerySelect       == SelectContent
GallerySheet        == SheetContent(TRUE)
GalleryTooltip      == Tooltip

(* an item for each notification and one to view all of them *)
Notifications == DropdownMenu({"separator", "item"})
GalleryNotifications == Notifications

Profile == DropdownMenu({"label", "separator", "item"})
GalleryProfile == Profile

LayerOf == [alertDialog |-> GalleryAlertDialog, contextMenu |-> GalleryContextMenu,
            dialog |-> GalleryDialog, dropdownMenu |-> GalleryDropdownMenu,
            hoverCard |-> GalleryHoverCard, menubar |-> GalleryMenubar,
            popover |-> GalleryPopover, select |-> GallerySelect, sheet |-> GallerySheet,
            tooltip |-> GalleryTooltip, notifications |-> GalleryNotifications,
            profile |-> GalleryProfile]
=============================================================================
